---- MODULE Spec2Model ----
(***************************************************************************)
(* Hybrid retrieval fusion engine of Cognitive-Companion-Agent.            *)
(*                                                                         *)
(* The module models                                                       *)
(*   - LRUCache                        (production_search.py)              *)
(*   - ProductionAdvancedSearch.search (production_search.py), with its    *)
(*     three concurrent strategy tasks, the as_completed collection loop,  *)
(*     the executor shutdown, the optional rerank and the result cache     *)
(*   - DynamicHybridSearch.search      (enhanced_hybrid_search.py)         *)
(*   - OptimizedAdvancedSearch.search  (cached_advanced_search.py)         *)
(*   - enhanced_search, reciprocal_rank_fusion (search_enhancements.py)    *)
(*   - KeywordSearchIndex               (keyword_search.py)                 *)
(*   - ConnectionPool                   (connection_pool.py)                *)
(*                                                                         *)
(* Scores are rationals in the code (Python floats); here every score is   *)
(* an exact integer multiple of a common unit, so equality of two scores   *)
(* is equality of the rationals.                                           *)
(***************************************************************************)
EXTENDS Integers, Sequences, FiniteSets, TLC

\* ------------------------------------------------------------------ bounds
\* longest ranked list a strategy or backend returns
MaxLen == 2
\* the clock runs from 0 to MaxTime
MaxTime == 1
\* longest list a strategy returns when searches follow one another
SeqMaxLen == 1
\* LRUCache.max_size of the modelled instance
MaxCacheSize == 2
\* searches started in one behaviour
MaxCalls == 2
\* threads that call get_connection on one pool, once each
MaxCallers == 4
\* pinecone_pool = ConnectionPool(max_size=3, min_size=1, ...)
max_size == 3
min_size == 1

DocIds == {"d1", "d2", "d3"}
\* the documents found when searches follow one another
SeqDocIds == {"d1", "d2"}
\* text and metadata of a hit: what the vector store returns for a document
\* (stored text, stored metadata) or what the keyword index returns
\* (content, {})
Payloads == {"vec", "kw"}
\* queries are character sequences; <<>> is the empty query ""
Queries == {<<>>, <<"a">>}
\* k below and at the number of documents
Ks == {1, 3}

Min(a, b) == IF a < b THEN a ELSE b
Max(a, b) == IF a > b THEN a ELSE b

RECURSIVE Fact(_)
Fact(n) == IF n <= 1 THEN 1 ELSE n * Fact(n - 1)

Range(s) == {s[i] : i \in 1..Len(s)}

Ids(s) == [i \in 1..Len(s) |-> s[i].id]

Take(s, n) == SubSeq(s, 1, Min(n, Len(s)))

NoDup(s) == \A i, j \in 1..Len(s) : i # j => s[i] # s[j]

\* every sequence over S of length at most n
SeqsUpTo(S, n) == UNION {[1..m -> S] : m \in 0..n}

\* the elements of S in each possible order
Orders(S) ==
    {o \in SeqsUpTo(S, Cardinality(S)) : Len(o) = Cardinality(S) /\ NoDup(o)}

\* ---------------------------------------------------------------- strings
Digit(d) == <<"0", "1", "2", "3", "4", "5", "6", "7", "8", "9">>[d + 1]

\* str(k) for k >= 0
RECURSIVE Str(_)
Str(n) == IF n < 10 THEN <<Digit(n)>> ELSE Str(n \div 10) \o <<Digit(n % 10)>>

\* hashlib.md5(s).hexdigest(): the digest stands for the hashed string
Md5(s) == s

\* ProductionAdvancedSearch.search: f"search_{md5(query + str(k))}"
SearchKey(query, kk) == <<"search", Md5(query \o Str(kk))>>
\* FastHyDE.generate_hypothetical: f"hyde_{md5(query)}"
HydeKey(query) == <<"hyde", Md5(query)>>
\* FastCrossEncoder.rerank: f"rerank_{md5(query + str(len(documents)))}"
RerankKey(query, n) == <<"rerank", Md5(query \o Str(n))>>

\* Python truthiness of what LRUCache.get returned: None, "" and [] are falsy
Truthy(r) == r.hit /\ r.value # <<>>

\* ---------------------------------------------------------------- LRUCache
\* self.cache is an OrderedDict: a sequence of entries, oldest first
\* LRUCache.ttl, in ticks of the clock
CACHE_TTL == 1

CacheIndex(c, key) ==
    IF \E i \in 1..Len(c) : c[i].key = key
    THEN CHOOSE i \in 1..Len(c) : c[i].key = key
    ELSE 0

RemoveAt(c, i) == SubSeq(c, 1, i - 1) \o SubSeq(c, i + 1, Len(c))

Fresh(e, t) == t - e.ts < CACHE_TTL

\* LRUCache.get: the value returned; hit = FALSE stands for None
Miss == [hit |-> FALSE, value |-> <<>>]

CacheGetValue(c, key, t) ==
    LET i == CacheIndex(c, key)
    IN  IF i = 0 THEN Miss
        ELSE IF Fresh(c[i], t) THEN [hit |-> TRUE, value |-> c[i].value]
        ELSE Miss

\* LRUCache.get: the cache it leaves
CacheAfterGet(c, key, t) ==
    LET i == CacheIndex(c, key)
    IN  IF i = 0 THEN c
        ELSE IF Fresh(c[i], t) THEN RemoveAt(c, i) \o <<c[i]>>
        ELSE RemoveAt(c, i)

\* LRUCache.set: the cache it leaves
CacheAfterSet(c, key, value, t) ==
    LET c1 == IF Len(c) >= MaxCacheSize THEN Tail(c) ELSE c
        i  == CacheIndex(c1, key)
        e  == [key |-> key, value |-> value, ts |-> t]
    IN  IF i = 0 THEN Append(c1, e) ELSE Append(RemoveAt(c1, i), e)

\* ------------------------------------------------- ProductionAdvancedSearch
Strategies == {"hyde", "multi", "enhanced"}

\* the method weight of futures[future], times 10
MethodWeight(s) == CASE s = "hyde" -> 12 [] s = "multi" -> 11 [] OTHER -> 10

\* the rank weight with the index in place of the distance from the end
RankWeightAscending(n, i, s) ==
    (((i + 1) * Fact(MaxLen)) \div n) * MethodWeight(s)

\* the rank weight counted from len(results) - 1: the last hit weighs nothing
RankWeightFromZero(n, i, s) ==
    (((n - i - 1) * Fact(MaxLen)) \div n) * MethodWeight(s)

\* (len(results) - i) / len(results) * weight for the hit at 0-based index i,
\* in units of 1 / (10 * MaxLen!)
RankWeight(n, i, s) == (((n - i) * Fact(MaxLen)) \div n) * MethodWeight(s)

VARIABLES
    now,          \* time.time()
    cache,        \* LRUCache.cache
    file,         \* contents of lru_cache.pkl
    pc,           \* where the caller of search is
    query, k,     \* arguments of the running search
    use_ce,       \* its use_cross_encoder argument, read once the tasks are done
    cached,       \* what self.cache.get(cache_key) returned
    st,           \* state of each strategy task
    res,          \* the list a collected strategy returned
    timedOut,     \* as_completed raised TimeoutError
    all_results,  \* doc_id -> (text, meta), in insertion order
    weights,      \* doc_id -> accumulated score
    out,          \* the list search returned
    raised,       \* search raised instead of returning
    calls,        \* backend calls issued by the running search
    nCalls,       \* searches started so far
    ep,           \* the last call of another entry point
    lock,         \* LRUCache.lock: the thread holding it, or "none"
    thr,          \* each thread calling into the shared cache: where it is
    start,        \* the cache contents those threads started from
    table,        \* KeywordSearchIndex: the rows (id, content) of documents
    doc_ids,      \* KeywordSearchIndex.doc_ids
    doc_contents, \* KeywordSearchIndex.doc_contents
    pool,         \* ConnectionPool.pool: the number of queued connections
    active_connections,  \* ConnectionPool.active_connections
    current_size, \* ConnectionPool.stats["current_size"]
    conn,         \* where each caller of get_connection is
    clr           \* where the caller of clear is

prodVars == <<pc, query, k, use_ce, cached, st, res, timedOut, all_results,
              weights, out, raised, calls, nCalls>>
cacheVars == <<now, cache, file>>
\* the threads that share one LRUCache
lockVars == <<lock, thr, start>>
\* what a single search or a single call leaves alone
\* one KeywordSearchIndex and its database
indexVars == <<table, doc_ids, doc_contents>>
\* one ConnectionPool and the threads using it
poolVars == <<pool, active_connections, current_size, conn, clr>>
extVars == <<lockVars, indexVars, poolVars>>
vars == <<now, cache, file, pc, query, k, use_ce, cached, st, res,
          timedOut, all_results, weights, out, raised, calls, nCalls, ep,
          lock, thr, start, table, doc_ids, doc_contents,
          pool, active_connections, current_size, conn, clr>>

\* a dict doc_id -> score: its keys in insertion order, the score of each key
\* as a multiple of 1 / den (0 for a doc id that is not a key)
NoScores == [keys |-> <<>>, val |-> [d \in DocIds |-> 0], den |-> 1]

\* arg and ret hold what else a call was given and what else it computed
NoEp == [fn |-> "none", query |-> <<>>, k |-> 1, rerank |-> FALSE,
         norm |-> FALSE, lists |-> <<>>, scores |-> NoScores,
         out |-> <<>>, raised |-> FALSE, calls |-> 0,
         arg |-> [none |-> TRUE], ret |-> [none |-> TRUE]]

ZeroWeights == [d \in DocIds |-> 0]

\* a hit (doc_id, text, meta); pl stands for (text, meta)
Hit(d, p) == [id |-> d, pl |-> p]

\* the ranked lists a strategy can return: at most n hits with distinct doc
\* ids over D (every strategy deduplicates before it returns), all of them
\* with a payload of P
RankedLists(D, n, P) ==
    {[i \in 1..Len(ids) |-> Hit(ids[i], p)] :
        ids \in {l \in SeqsUpTo(D, n) : NoDup(l)}, p \in P}

\* what strategy s can return for (query, 2k).  FastHyDE.search takes its hits
\* from vector search; ParallelMultiStage.retrieve also returns the
\* (doc_id, content, {}) hits of its _keyword_search; enhanced_search returns
\* [] for an empty query
StrategyLists(s, qq, kk, D, n, P) ==
    CASE s = "multi" -> RankedLists(D, Min(2 * kk, n), P)
      [] s = "enhanced" /\ qq = <<>> -> {<<>>}
      [] OTHER -> RankedLists(D, Min(2 * kk, n), {"vec"})

\* whether strategy s reaches a backend for this query
IssuesBackendCall(s, qq) == ~(s = "enhanced" /\ qq = <<>>)

\* membership tested against the last inserted hit alone
InResultsLast(ar, d) == ar # <<>> /\ ar[Len(ar)].id = d

InResults(ar, d) == \E i \in 1..Len(ar) : ar[i].id = d

\* the body of the collection loop for one completed future
RECURSIVE MergeResults(_, _, _, _)
MergeResults(ar, results, i, s) ==
    IF i > Len(results) THEN ar
    ELSE MergeResults(IF InResults(ar, results[i].id) THEN ar
                      ELSE Append(ar, results[i]),
                      results, i + 1, s)

RECURSIVE MergeWeights(_, _, _, _)
MergeWeights(w, results, i, s) ==
    IF i > Len(results) THEN w
    ELSE MergeWeights(
            [w EXCEPT ![results[i].id] = @ + RankWeight(Len(results), i - 1, s)],
            results, i + 1, s)

\* list.sort(key=score, reverse=True): stable, equal scores keep their order
InsertStable(sorted, x) ==
    LET p == Cardinality({i \in 1..Len(sorted) : sorted[i].score >= x.score})
    IN  SubSeq(sorted, 1, p) \o <<x>> \o SubSeq(sorted, p + 1, Len(sorted))

RECURSIVE StableSortDesc(_)
StableSortDesc(s) ==
    IF s = <<>> THEN <<>>
    ELSE InsertStable(StableSortDesc(SubSeq(s, 1, Len(s) - 1)), s[Len(s)])

Unscore(s) == [i \in 1..Len(s) |-> Hit(s[i].id, s[i].pl)]

\* candidates_weighted after the sort
CandidatesWeighted(ar, w) ==
    StableSortDesc([i \in 1..Len(ar) |->
                       [id |-> ar[i].id, pl |-> ar[i].pl, score |-> w[ar[i].id]]])

Perms(s) ==
    {[i \in 1..Len(s) |-> s[f[i]]] :
        f \in {g \in [1..Len(s) -> 1..Len(s)] :
                  \A i, j \in 1..Len(s) : i # j => g[i] # g[j]}}

\* doc_dict[doc_id] for doc_id in cached if doc_id in doc_dict
DocDict(documents, d) ==
    documents[CHOOSE i \in 1..Len(documents) :
                 /\ documents[i].id = d
                 /\ \A j \in (i + 1)..Len(documents) : documents[j].id # d]

\* result_ids as stored in the cache: the doc ids alone
IdList(documents) == [i \in 1..Len(documents) |-> [id |-> documents[i].id]]

ApplyOrdering(documents, ids) ==
    LET kept == SelectSeq(ids, LAMBDA e : InResults(documents, e.id))
    IN  [i \in 1..Len(kept) |-> DocDict(documents, kept[i].id)]

\* "return documents[:k]" without the k: the whole list
FallbackAll(documents, kk) == documents

\* "return documents[:k]", the fallback of both rerank functions
Fallback(documents, kk) == Take(documents, kk)

\* FastCrossEncoder.rerank: every (returned list, cache left, model calls);
\* mode tells what happened: the model is absent (or there is no document),
\* a cached ordering was applied, predict failed, or predict scored
RerankOutcomes(c, qq, documents, kk, t, model) ==
    IF ~model \/ documents = <<>>
    THEN {[out |-> Fallback(documents, kk), cache |-> c, calls |-> 0,
           mode |-> "absent"]}
    ELSE LET key == RerankKey(qq, Len(documents))
             got == CacheGetValue(c, key, t)
             c1  == CacheAfterGet(c, key, t)
         IN  IF Truthy(got)
             THEN {[out |-> Take(ApplyOrdering(documents, got.value), kk),
                    cache |-> c1, calls |-> 0, mode |-> "cached"]}
             ELSE \* predict raised or exceeded its 2 s: the original order
                  {[out |-> Fallback(documents, kk), cache |-> c1, calls |-> 1,
                    mode |-> "failed"]}
                  \cup
                  \* predict returned scores: any order of the documents
                  {[out |-> Take(p, kk),
                    cache |-> CacheAfterSet(c1, key, IdList(Take(p, kk)), t),
                    calls |-> 1, mode |-> "scored"] : p \in Perms(documents)}

\* no thread other than the caller of search runs
NoThreads == lock = "none" /\ thr = <<>> /\ start = <<>>

\* callers of one ConnectionPool
Callers == 1..MaxCallers

\* a pool nobody uses, its first connection queued
NoPool ==
    /\ pool = min_size
    /\ active_connections = 0
    /\ current_size = min_size
    /\ conn = [c \in Callers |-> "idle"]
    /\ clr = "idle"

\* an empty database and the index built from it
NoIndex == table = <<>> /\ doc_ids = <<>> /\ doc_contents = <<>>

Init ==
    /\ now = 0
    /\ cache = <<>>
    /\ file = <<>>
    /\ pc = "idle"
    /\ query = <<>>
    /\ k = 1
    /\ use_ce = FALSE
    /\ cached = Miss
    /\ st = [s \in Strategies |-> "idle"]
    /\ res = [s \in Strategies |-> <<>>]
    /\ timedOut = FALSE
    /\ all_results = <<>>
    /\ weights = ZeroWeights
    /\ out = <<>>
    /\ raised = FALSE
    /\ calls = 0
    /\ nCalls = 0
    /\ ep = NoEp
    /\ NoThreads
    /\ NoIndex
    /\ NoPool

\* search(query, k, use_cross_encoder) up to the launch of the three tasks
StartSearch(qq, kk) ==
    /\ pc = "idle"
    /\ ep = NoEp
    /\ nCalls < MaxCalls
    /\ LET got == CacheGetValue(cache, SearchKey(qq, kk), now)
       IN  /\ cached' = got
           /\ cache' = CacheAfterGet(cache, SearchKey(qq, kk), now)
           /\ IF Truthy(got)
              THEN /\ pc' = "done"
                   /\ out' = got.value
                   /\ st' = [s \in Strategies |-> "idle"]
                   /\ calls' = 0
              ELSE /\ pc' = "collect"
                   /\ out' = <<>>
                   /\ st' = [s \in Strategies |-> "running"]
                   /\ calls' = Cardinality({s \in Strategies :
                                               IssuesBackendCall(s, qq)})
    /\ query' = qq /\ k' = kk /\ use_ce' = FALSE
    /\ res' = [s \in Strategies |-> <<>>]
    /\ timedOut' = FALSE
    /\ all_results' = <<>>
    /\ weights' = ZeroWeights
    /\ raised' = FALSE
    /\ nCalls' = nCalls + 1
    /\ UNCHANGED <<extVars, now, file, ep>>

\* the hypothetical answer: some non-empty text
HypotheticalText == <<[ch |-> "h"]>>

\* FastHyDE.generate_hypothetical, run by the hyde task before it searches:
\* the cached text, or a pre-computed, generated or template text that is
\* stored under the hyde key
AfterGenerate(c, qq, t) ==
    LET got == CacheGetValue(c, HydeKey(qq), t)
        c1  == CacheAfterGet(c, HydeKey(qq), t)
    IN  IF Truthy(got) THEN c1
        ELSE CacheAfterSet(c1, HydeKey(qq), HypotheticalText, t)

\* _save_cache ran iff generate_hypothetical called cache.set
FileAfterGenerate(c, f, qq, t) ==
    IF Truthy(CacheGetValue(c, HydeKey(qq), t)) THEN f
    ELSE AfterGenerate(c, qq, t)

Unfinished(s) == st[s] = "running"

\* task s returns results; as_completed yields it and the loop body merges it,
\* unless the loop was already left on TimeoutError
TaskReturns(s, results) ==
    /\ Unfinished(s)
    /\ IF pc = "collect"
       THEN /\ st' = [st EXCEPT ![s] = "ok"]
            /\ res' = [res EXCEPT ![s] = results]
            /\ all_results' = MergeResults(all_results, results, 1, s)
            /\ weights' = MergeWeights(weights, results, 1, s)
       ELSE /\ st' = [st EXCEPT ![s] = "late"]
            /\ UNCHANGED <<res, all_results, weights>>
    /\ IF s = "hyde"
       THEN /\ cache' = AfterGenerate(cache, query, now)
            /\ file' = FileAfterGenerate(cache, file, query, now)
       ELSE UNCHANGED <<cache, file>>
    /\ UNCHANGED <<extVars, now, pc, query, k, use_ce, cached,
                   timedOut, out, raised, calls, nCalls, ep>>

\* task s raises: future.result() re-raises inside the try, except: pass
TaskRaises(s) ==
    /\ Unfinished(s)
    /\ st' = [st EXCEPT ![s] = IF pc = "collect" THEN "failed" ELSE "late"]
    /\ UNCHANGED <<extVars, now, cache, file, pc, query, k, use_ce, cached,
                   res, timedOut, all_results, weights, out, raised, calls,
                   nCalls, ep>>

\* SEARCH_TIMEOUT passes with a future not yet yielded: as_completed raises
\* TimeoutError, caught; the with block then waits in executor.shutdown
Deadline ==
    /\ pc = "collect"
    /\ \E s \in Strategies : Unfinished(s)
    /\ timedOut' = TRUE
    /\ pc' = "join"
    /\ UNCHANGED <<extVars, now, cache, file, query, k, use_ce, cached, st,
                   res, all_results, weights, out, raised, calls, nCalls, ep>>

\* the with block is left (every task has finished), then sort, rerank,
\* cache.set and return.  ce is the use_cross_encoder argument; model says
\* whether HAS_CROSS_ENCODER holds and FastCrossEncoder.model was loaded
FinishSearch(ce, model) ==
    /\ pc \in {"collect", "join"}
    /\ \A s \in Strategies : ~Unfinished(s)
    /\ LET cw == CandidatesWeighted(all_results, weights)
       IN  IF ce
           THEN \E r \in RerankOutcomes(cache, query, Unscore(Take(cw, 2 * k)),
                                        k, now, model) :
                   /\ out' = r.out
                   /\ cache' = CacheAfterSet(r.cache, SearchKey(query, k),
                                             r.out, now)
                   /\ calls' = calls + r.calls
           ELSE /\ out' = Unscore(Take(cw, k))
                /\ cache' = CacheAfterSet(cache, SearchKey(query, k),
                                          Unscore(Take(cw, k)), now)
                /\ calls' = calls
    /\ use_ce' = ce
    /\ file' = cache'
    /\ pc' = "done"
    /\ UNCHANGED <<extVars, now, query, k, cached, st, res, timedOut,
                   all_results, weights, raised, nCalls, ep>>

\* the caller takes the result; the locals of the call are gone
Return ==
    /\ pc = "done"
    /\ pc' = "idle"
    /\ query' = <<>> /\ k' = 1 /\ use_ce' = FALSE
    /\ cached' = Miss
    /\ st' = [s \in Strategies |-> "idle"]
    /\ res' = [s \in Strategies |-> <<>>]
    /\ timedOut' = FALSE
    /\ all_results' = <<>>
    /\ weights' = ZeroWeights
    /\ out' = <<>>
    /\ raised' = FALSE
    /\ calls' = 0
    /\ UNCHANGED <<extVars, now, cache, file, nCalls, ep>>

Tick ==
    /\ now < MaxTime
    /\ now' = now + 1
    /\ UNCHANGED <<extVars, cache, file, pc, query, k, use_ce, cached, st,
                   res, timedOut, all_results, weights, out, raised, calls,
                   nCalls, ep>>

\* the engine is freshly constructed and no entry point was called yet
NoCallYet == pc = "idle" /\ nCalls = 0 /\ ep = NoEp

\* -------------------------------------------------- reciprocal rank fusion
RRF_K == 60

RECURSIVE RrfUnitUpTo(_)
RrfUnitUpTo(r) == IF r = 0 THEN 1 ELSE (RRF_K + r) * RrfUnitUpTo(r - 1)

\* RRF scores are multiples of 1 / RrfUnit
RrfUnit == RrfUnitUpTo(MaxLen)

\* 1 / (k + rank)
RrfTerm(rank) == RrfUnit \div (RRF_K + rank)

\* rrf_scores[doc_id] = x: assignment in place of accumulation
AddScoreOverwrite(sc, d, x) ==
    [sc EXCEPT !.keys = IF d \in Range(@) THEN @ ELSE Append(@, d),
               !.val[d] = x]

\* rrf_scores[doc_id] += x, the key created at 0 when it is new
AddScore(sc, d, x) ==
    [sc EXCEPT !.keys = IF d \in Range(@) THEN @ ELSE Append(@, d),
               !.val[d] = @ + x]

RECURSIVE RrfRanks(_, _, _)
RrfRanks(sc, results, rank) ==
    IF rank > Len(results) THEN sc
    ELSE RrfRanks(AddScore(sc, results[rank].id, RrfTerm(rank)),
                  results, rank + 1)

RECURSIVE RrfLists(_, _, _)
RrfLists(sc, results_lists, j) ==
    IF j > Len(results_lists) THEN sc
    ELSE RrfLists(RrfRanks(sc, results_lists[j], 1), results_lists, j + 1)

\* search_enhancements.reciprocal_rank_fusion
reciprocal_rank_fusion(results_lists) ==
    RrfLists([NoScores EXCEPT !.den = RrfUnit], results_lists, 1)

\* the normalize branch of DynamicHybridSearch.reciprocal_rank_fusion
NormalizeRrf(sc) ==
    LET vs == {sc.val[d] : d \in Range(sc.keys)}
        max_score == CHOOSE v \in vs : \A u \in vs : u <= v
        min_score == CHOOSE v \in vs : \A u \in vs : u >= v
    IN  IF sc.keys = <<>> THEN sc
        ELSE IF max_score > min_score
        THEN [keys |-> sc.keys,
              val |-> [d \in DocIds |->
                          IF d \in Range(sc.keys) THEN sc.val[d] - min_score
                          ELSE 0],
              den |-> max_score - min_score]
        ELSE [keys |-> sc.keys,
              val |-> [d \in DocIds |-> IF d \in Range(sc.keys) THEN 1 ELSE 0],
              den |-> 2]

RECURSIVE DynRrfRanks(_, _, _)
DynRrfRanks(sc, results, rank) ==
    IF rank > Len(results) THEN sc
    ELSE DynRrfRanks(AddScore(sc, results[rank].id, RrfTerm(rank)),
                     results, rank + 1)

RECURSIVE DynRrfLists(_, _, _)
DynRrfLists(sc, result_lists, j) ==
    IF j > Len(result_lists) THEN sc
    ELSE DynRrfLists(DynRrfRanks(sc, result_lists[j], 1), result_lists, j + 1)

\* DynamicHybridSearch.reciprocal_rank_fusion
DynReciprocalRankFusion(result_lists, normalize) ==
    LET sc == DynRrfLists([NoScores EXCEPT !.den = RrfUnit], result_lists, 1)
    IN  IF normalize THEN NormalizeRrf(sc) ELSE sc

\* the ranked lists a backend can hand over: a doc id may occur twice
BackendLists(D, n, p) ==
    {[i \in 1..Len(ids) |-> Hit(ids[i], p)] : ids \in SeqsUpTo(D, n)}

\* lists handed to one fusion call
MaxLists == 2

FusionInputs == SeqsUpTo(BackendLists(DocIds, MaxLen, "vec"), MaxLists)

\* a call of search_enhancements.reciprocal_rank_fusion
RrfCall(results_lists) ==
    /\ NoCallYet
    /\ ep' = [NoEp EXCEPT !.fn = "rrf", !.lists = results_lists,
                          !.scores = reciprocal_rank_fusion(results_lists)]
    /\ UNCHANGED <<extVars, cacheVars, prodVars>>

\* a call of DynamicHybridSearch.reciprocal_rank_fusion
DynRrfCall(result_lists, normalize) ==
    /\ NoCallYet
    /\ ep' = [NoEp EXCEPT !.fn = "dynrrf", !.lists = result_lists,
                          !.norm = normalize,
                          !.scores = DynReciprocalRankFusion(result_lists,
                                                             normalize)]
    /\ UNCHANGED <<extVars, cacheVars, prodVars>>

\* ------------------------------------------------------ DynamicHybridSearch
\* a query is a sequence of words; the words that analyze_query tells apart
Tokens == {"a", "\"p\"", "#1", "today", "100"}

\* words in a query of DynamicHybridSearch.search
MaxTokens == 1

\* a query with two quoted phrases
TwoPhrases == <<"\"p\"", "\"p\"">>

DynQueries == SeqsUpTo(Tokens, MaxTokens) \cup {TwoPhrases}

\* re.findall of the quote pattern
ExactPhrases(qq) == SelectSeq(qq, LAMBDA t : t = "\"p\"")

HasIds(qq) == \E i \in 1..Len(qq) : qq[i] = "#1"

HasDates(qq) == \E i \in 1..Len(qq) : qq[i] = "today"

HasNumbers(qq) == \E i \in 1..Len(qq) : qq[i] = "100"

\* what the detection steps of analyze_query can find in a query
Flags == [quotes : BOOLEAN, ids : BOOLEAN, dates : BOOLEAN, numbers : BOOLEAN]

\* "Determine query type" of DynamicHybridSearch.analyze_query
DynQueryType(f) ==
    IF f.quotes \/ f.ids THEN "exact"
    ELSE IF f.dates \/ f.numbers THEN "hybrid"
    ELSE "semantic"

\* query_type as analyze_query leaves it
analyze_query(qq) ==
    DynQueryType([quotes |-> ExactPhrases(qq) # <<>>, ids |-> HasIds(qq),
                  dates |-> HasDates(qq), numbers |-> HasNumbers(qq)])

\* (vector_weight, keyword_weight), times 10
calculate_dynamic_weights(query_type) ==
    CASE query_type = "exact" -> <<2, 8>>
      [] query_type = "hybrid" -> <<5, 5>>
      [] OTHER -> <<8, 2>>

\* the queries handed to keyword_index.search: each exact phrase, or the
\* whole query
KeywordQueries(qq) ==
    IF ExactPhrases(qq) # <<>>
    THEN [i \in 1..Len(ExactPhrases(qq)) |-> <<ExactPhrases(qq)[i]>>]
    ELSE <<qq>>

\* what keyword_index.search can return for query q and limit n
KeywordLists(q, D, n) ==
    IF q = <<>> THEN {<<>>} ELSE BackendLists(D, n, "kw")

\* the documents the keyword index holds for a query of two phrases
PhraseDocIds(qq, D) == IF Len(ExactPhrases(qq)) > 1 THEN D \cap SeqDocIds ELSE D

\* every choice of keyword result lists for the query
KeywordResults(qq, kk, D, n) ==
    {kws \in SeqsUpTo(BackendLists(PhraseDocIds(qq, D), n, "kw"),
                      Len(KeywordQueries(qq))) :
        /\ Len(kws) = Len(KeywordQueries(qq))
        /\ \A i \in 1..Len(kws) :
              /\ kws[i] \in KeywordLists(KeywordQueries(qq)[i], D, n)
              /\ Len(kws[i]) <= (IF ExactPhrases(qq) # <<>> THEN 2 * kk
                                 ELSE 3 * kk)}

FoundIn(results, d) == \E i \in 1..Len(results) : results[i].id = d

\* Step 5 with the vector test first: a doc found by both is scaled too
WeightedScoresVectorFirst(sc, result_lists, weights10) ==
    [keys |-> sc.keys,
     val |-> [d \in DocIds |->
                IF FoundIn(result_lists[1], d) THEN sc.val[d] * weights10[1]
                ELSE sc.val[d] * weights10[2]],
     den |-> sc.den * 10]

\* Step 5: the RRF score times the weight of the method that found the doc
WeightedScores(sc, result_lists, weights10) ==
    [keys |-> sc.keys,
     val |-> [d \in DocIds |->
                LET found_in_vector == FoundIn(result_lists[1], d)
                    found_in_keyword ==
                        \E j \in 2..Len(result_lists) : FoundIn(result_lists[j], d)
                IN  IF found_in_vector /\ found_in_keyword THEN sc.val[d] * 10
                    ELSE IF found_in_vector THEN sc.val[d] * weights10[1]
                    ELSE sc.val[d] * weights10[2]],
     den |-> sc.den * 10]

\* Step 6: candidates in dict order with doc_content, then the sort
DynCandidates(ws, result_lists) ==
    StableSortDesc([i \in 1..Len(ws.keys) |->
        [id |-> ws.keys[i],
         pl |-> IF FoundIn(result_lists[1], ws.keys[i]) THEN "vec" ELSE "kw",
         score |-> ws.val[ws.keys[i]]]])

\* rerank_with_cross_encoder: what it can return, and what happened (the
\* cross-encoder is absent or there is no document, predict raised, predict
\* scored)
DynRerankOutcomes(documents, top_k, model) ==
    IF ~model \/ documents = <<>>
    THEN {[out |-> Fallback(documents, top_k), mode |-> "absent"]}
    ELSE {[out |-> Fallback(documents, top_k), mode |-> "failed"]}
         \cup {[out |-> Take(p, top_k), mode |-> "scored"] :
                  p \in Perms(documents)}

\* rerank_with_cross_encoder: the lists it can return
rerank_with_cross_encoder(documents, top_k, model) ==
    {r.out : r \in DynRerankOutcomes(documents, top_k, model)}

\* DynamicHybridSearch.search(query, k, use_cross_encoder).  fails: the
\* vector search raises; enabled: keyword_index.enabled; model:
\* self.cross_encoder is loaded.  The hits of out carry no score: the
\* scores of the fused candidates are kept in ep.scores
DynamicSearch(qq, kk, ce, model, enabled, fails, vector_results, kws) ==
    /\ NoCallYet
    /\ LET w10 == calculate_dynamic_weights(analyze_query(qq))
           result_lists == <<vector_results>> \o (IF enabled THEN kws ELSE <<>>)
           rrf_scores == DynReciprocalRankFusion(result_lists, TRUE)
           ws == WeightedScores(rrf_scores, result_lists, w10)
           candidates == DynCandidates(ws, result_lists)
           kwCalls == IF enabled
                      THEN Cardinality({i \in 1..Len(KeywordQueries(qq)) :
                                           KeywordQueries(qq)[i] # <<>>})
                      ELSE 0
       IN  IF fails
           THEN ep' = [NoEp EXCEPT !.fn = "dynamic", !.query = qq, !.k = kk,
                                   !.raised = TRUE, !.calls = 1]
           ELSE \E final_results \in
                      IF ce /\ model
                      THEN rerank_with_cross_encoder(
                               Unscore(Take(candidates, 2 * kk)), kk, model)
                      ELSE {Unscore(Take(candidates, kk))} :
                   ep' = [fn |-> "dynamic", query |-> qq, k |-> kk,
                          rerank |-> ce /\ model, norm |-> TRUE,
                          lists |-> result_lists, scores |-> ws,
                          out |-> final_results, raised |-> FALSE,
                          calls |-> 1 + kwCalls,
                          arg |-> [vector |-> vector_results,
                                   keyword |-> IF enabled THEN kws ELSE <<>>],
                          ret |-> [rrf |-> rrf_scores, w10 |-> w10]]
    /\ UNCHANGED <<extVars, cacheVars, prodVars>>

\* a call of analyze_query and calculate_dynamic_weights on a query in which
\* the detection steps found f
DynWeightsCall(f) ==
    /\ NoCallYet
    /\ ep' = [NoEp EXCEPT
                 !.fn = "dyn_weights", !.arg = f,
                 !.ret = [qtype |-> DynQueryType(f),
                          w |-> [v |-> calculate_dynamic_weights(DynQueryType(f))[1],
                                 kw |-> calculate_dynamic_weights(DynQueryType(f))[2],
                                 den |-> 10]]]
    /\ UNCHANGED <<extVars, cacheVars, prodVars>>

\* -------------------------------------------------- DynamicWeightCalculator
\* "Determine query type" of DynamicWeightCalculator.analyze_query
DwcQueryType(f) ==
    IF f.quotes \/ f.ids THEN "exact"
    ELSE IF f.ids /\ ~f.quotes THEN "navigational"
    ELSE IF f.dates THEN "temporal"
    ELSE "general"

\* self.default_weights[query_type], times 10
default_weights(query_type) ==
    CASE query_type = "general" -> [vector |-> 7, keyword |-> 3]
      [] query_type = "exact" -> [vector |-> 3, keyword |-> 7]
      [] query_type = "navigational" -> [vector |-> 2, keyword |-> 8]
      [] OTHER -> [vector |-> 5, keyword |-> 5]

\* _calculate_adjustments: the two multipliers, times 1000
CalculateAdjustments(f) ==
    [vector_mult |-> (IF f.quotes THEN 5 ELSE 10) * (IF f.ids THEN 7 ELSE 10)
                        * (IF f.dates THEN 11 ELSE 10),
     keyword_mult |-> (IF f.quotes THEN 20 ELSE 10) * (IF f.ids THEN 15 ELSE 10)
                        * (IF f.dates THEN 12 ELSE 10)]

\* calculate_weights without its "Normalize to sum to 1.0" step
calculate_weights_raw(f, force_exact) ==
    IF force_exact THEN [v |-> 1, kw |-> 9, den |-> 10]
    ELSE [v |-> default_weights(DwcQueryType(f)).vector
                   * CalculateAdjustments(f).vector_mult,
          kw |-> default_weights(DwcQueryType(f)).keyword
                    * CalculateAdjustments(f).keyword_mult,
          den |-> 10000]

\* calculate_weights: (vector_weight, keyword_weight) = (v / den, kw / den)
calculate_weights(f, force_exact) ==
    IF force_exact THEN [v |-> 1, kw |-> 9, den |-> 10]
    ELSE LET vector_weight == default_weights(DwcQueryType(f)).vector
                                 * CalculateAdjustments(f).vector_mult
             keyword_weight == default_weights(DwcQueryType(f)).keyword
                                  * CalculateAdjustments(f).keyword_mult
             total == vector_weight + keyword_weight
         IN  IF total > 0
             THEN [v |-> vector_weight, kw |-> keyword_weight, den |-> total]
             ELSE [v |-> 5, kw |-> 5, den |-> 10]

\* a call of DynamicWeightCalculator.calculate_weights on a query in which
\* analyze_query detects f
DwcWeightsCall(f, force_exact) ==
    /\ NoCallYet
    /\ ep' = [NoEp EXCEPT
                 !.fn = "dwc_weights",
                 !.arg = [quotes |-> f.quotes, ids |-> f.ids, dates |-> f.dates,
                          numbers |-> f.numbers, force_exact |-> force_exact],
                 !.ret = [qtype |-> DwcQueryType(f),
                          w |-> calculate_weights(f, force_exact)]]
    /\ UNCHANGED <<extVars, cacheVars, prodVars>>

\* -------------------------------------------------- OptimizedAdvancedSearch
OptMethods == {"hyde", "multi", "enhanced", "basic"}

\* weights.get(method), times 10
OptWeight(m) ==
    CASE m = "hyde" -> 12 [] m = "multi" -> 11 [] m = "enhanced" -> 10
      [] OTHER -> 8

\* what a method task does before the timeout: returns a list, raises, or
\* is still running ("slow")
OptOutcomes(m, qq, kk) ==
    IF m = "enhanced" /\ qq = <<>> THEN {[kind |-> "ok", list |-> <<>>]}
    ELSE {[kind |-> "ok", list |-> l] :
             l \in RankedLists(SeqDocIds, Min(kk, MaxLen), {"vec"})}
         \cup {[kind |-> "raise", list |-> <<>>],
               [kind |-> "slow", list |-> <<>>]}

\* the loop body for one completed future: all_results as a list of
\* (doc_id, payload, score) in insertion order, score in units of 1 / (10 k)
RECURSIVE OptMergeOne(_, _, _, _, _)
OptMergeOne(ar, results, i, m, kk) ==
    IF i > Len(results) THEN ar
    ELSE LET d == results[i].id
             score == (kk - (i - 1)) * OptWeight(m)
             ar1 == IF InResults(ar, d) THEN ar
                    ELSE Append(ar, [id |-> d, pl |-> results[i].pl, score |-> 0])
         IN  OptMergeOne([j \in 1..Len(ar1) |->
                             IF ar1[j].id = d
                             THEN [ar1[j] EXCEPT !.score = @ + score]
                             ELSE ar1[j]],
                         results, i + 1, m, kk)

RECURSIVE OptMerge(_, _, _, _, _)
OptMerge(ar, order, j, outcome, kk) ==
    IF j > Len(order) THEN ar
    ELSE OptMerge(IF outcome[order[j]].kind = "ok"
                  THEN OptMergeOne(ar, outcome[order[j]].list, 1, order[j], kk)
                  ELSE ar,
                  order, j + 1, outcome, kk)

\* OptimizedAdvancedSearch.search(query, k, timeout): as_completed yields the
\* finished futures in order of completion and raises TimeoutError when one
\* is still running at the timeout; nothing on the way catches it
OptimizedSearch(qq, kk, outcome, order) ==
    /\ NoCallYet
    /\ LET slow == \E m \in OptMethods : outcome[m].kind = "slow"
           sorted_results == StableSortDesc(OptMerge(<<>>, order, 1, outcome, kk))
       IN  ep' = [NoEp EXCEPT
                     !.fn = "optimized", !.query = qq, !.k = kk,
                     !.raised = slow,
                     !.out = IF slow THEN <<>>
                             ELSE Unscore(Take(sorted_results, kk)),
                     !.calls = Cardinality({m \in OptMethods :
                                   ~(m = "enhanced" /\ qq = <<>>)})]
    /\ UNCHANGED <<extVars, cacheVars, prodVars>>

\* ---------------------------------------------------------- enhanced_search
\* enhanced_search(query, k): [] for an empty query, before any search;
\* otherwise the deduplicated top k of its searches, the first of which is
\* the vector search of the query itself (calls counts that one)
EnhancedSearch(qq, kk, results) ==
    /\ NoCallYet
    /\ ep' = [NoEp EXCEPT !.fn = "enhanced", !.query = qq, !.k = kk,
                          !.out = IF qq = <<>> THEN <<>> ELSE results,
                          !.calls = IF qq = <<>> THEN 0 ELSE 1]
    /\ UNCHANGED <<extVars, cacheVars, prodVars>>

\* ------------------------------------------------------------ hybrid_search
\* BM25 scores of keyword hits, all positive
BmScores == {1, 2}

\* KeywordSearchIndex.search: at most n hits (doc_id, bm25_score, content)
\* with distinct ids, best score first
KeywordHits(D, n) ==
    {h \in SeqsUpTo([id : D, score : BmScores], n) :
        /\ \A i, j \in 1..Len(h) : i # j => h[i].id # h[j].id
        /\ \A i \in 1..(Len(h) - 1) : h[i].score >= h[i + 1].score}

\* normalize_scores: the scores as multiples of 1 / den
normalize_scores(scores) ==
    IF scores = <<>> THEN [num |-> <<>>, den |-> 1]
    ELSE LET vs == Range(scores)
             max_score == CHOOSE v \in vs : \A u \in vs : u <= v
             min_score == CHOOSE v \in vs : \A u \in vs : u >= v
         IN  IF max_score = min_score
             THEN [num |-> [i \in 1..Len(scores) |-> 1], den |-> 2]
             ELSE [num |-> [i \in 1..Len(scores) |-> scores[i] - min_score],
                   den |-> max_score - min_score]

\* the keys of combined_scores / combined in insertion order: the vector
\* hits, then the keyword hits that are new
CombinedKeys(vector_results, keyword_results) ==
    Ids(vector_results)
    \o SelectSeq(Ids(keyword_results),
                 LAMBDA d : ~FoundIn(vector_results, d))

PlaceOf(results, d) == CHOOSE i \in 1..Len(results) : results[i].id = d

\* hybrid_search, weighted mode: combined_scores, alpha10 = 10 * alpha; every
\* vector hit has the rank-based score 1.0
WeightedCombination(vector_results, keyword_results, alpha10) ==
    LET nv == normalize_scores([i \in 1..Len(vector_results) |-> 1])
        nk == normalize_scores([i \in 1..Len(keyword_results) |->
                                   keyword_results[i].score])
    IN  [keys |-> CombinedKeys(vector_results, keyword_results),
         val |-> [d \in DocIds |->
                    (IF FoundIn(vector_results, d)
                     THEN alpha10 * nv.num[PlaceOf(vector_results, d)] * nk.den
                     ELSE 0)
                    + (IF FoundIn(keyword_results, d)
                       THEN (10 - alpha10)
                            * nk.num[PlaceOf(keyword_results, d)] * nv.den
                       ELSE 0)],
         den |-> 10 * nv.den * nk.den]

\* hybrid_search, use_rrf mode: combined
RrfCombination(vector_results, keyword_results) ==
    [reciprocal_rank_fusion(<<vector_results, keyword_results>>)
        EXCEPT !.keys = CombinedKeys(vector_results, keyword_results)]

\* sorted(..., reverse=True)[:k] of a combination, with the text of the
\* vector hit when there is one
TopOfCombination(sc, vector_results, kk) ==
    Unscore(Take(StableSortDesc(
        [i \in 1..Len(sc.keys) |->
            [id |-> sc.keys[i],
             pl |-> IF FoundIn(vector_results, sc.keys[i]) THEN "vec" ELSE "kw",
             score |-> sc.val[sc.keys[i]]]]), kk))

\* hybrid_search(query, k, alpha, use_rrf); vector_results is what
\* enhanced_search(query, 2k) returned, keyword_results what
\* keyword_index.search(query, 2k) returned
HybridSearch(qq, kk, alpha10, use_rrf, vector_results, keyword_results) ==
    /\ NoCallYet
    /\ LET sc == IF use_rrf
                 THEN RrfCombination(vector_results, keyword_results)
                 ELSE WeightedCombination(vector_results, keyword_results,
                                          alpha10)
       IN  ep' = [NoEp EXCEPT
                    !.fn = "hybrid", !.query = qq, !.k = kk,
                    !.arg = [alpha10 |-> alpha10, use_rrf |-> use_rrf,
                             vector |-> vector_results,
                             keyword |-> keyword_results],
                    !.scores = IF qq = <<>> THEN NoScores ELSE sc,
                    !.out = IF qq = <<>> THEN <<>>
                            ELSE TopOfCombination(sc, vector_results, kk)]
    /\ UNCHANGED <<extVars, cacheVars, prodVars>>

\* ------------------------------------------------------- result-cache keys
\* query texts that differ in case, in whitespace, in punctuation, or in a
\* trailing digit
KeyQueries == {<<"a">>, <<"A">>, <<"a", " ">>, <<"a", "?">>, <<"a", "1">>}
\* values of k whose decimal text begins alike
KeyKs == {1, 11}

\* str(b) of a Python bool
BoolStr(b) == IF b THEN <<"T", "r", "u", "e">> ELSE <<"F", "a", "l", "s", "e">>

\* EnhancedHybridSearch.search: md5(f"{query}_{k}_{use_rrf}")
EnhancedKey(qq, kk, use_rrf) ==
    Md5(qq \o <<"_">> \o Str(kk) \o <<"_">> \o BoolStr(use_rrf))

\* the arguments of one search call: rerank is use_cross_encoder of
\* ProductionAdvancedSearch.search (absent, FALSE, in EnhancedHybridSearch);
\* override tells whether override_weights is given and use_rrf is the flag
\* of EnhancedHybridSearch.search (both absent, FALSE, in Production)
SearchArgs(impl) ==
    IF impl = "production"
    THEN [query : KeyQueries, k : KeyKs, rerank : BOOLEAN,
          override : {FALSE}, use_rrf : {FALSE}]
    ELSE [query : KeyQueries, k : KeyKs, rerank : {FALSE},
          override : BOOLEAN, use_rrf : BOOLEAN]

\* the cache key the implementation computes for a call
ResultKey(impl, a) ==
    IF impl = "production" THEN SearchKey(a.query, a.k)
    ELSE <<"enhanced", EnhancedKey(a.query, a.k, a.use_rrf)>>

\* the non-empty results the first search of a pair, called with kk, can
\* store: at most kk documents
FirstResults(kk) ==
    RankedLists(SeqDocIds, Min(kk, MaxLen), {"vec"}) \ {<<>>}

\* whether a second search finds the entry the first one stored.  Production:
\* self.cache.set(cache_key, final_results), then cached = self.cache.get(
\* cache_key) and "if cached".  Enhanced: self._cache[cache_key] = results,
\* then "if cache_key in self._cache"
ServedFromCache(impl, first, second, result) ==
    IF impl = "production"
    THEN Truthy(CacheGetValue(CacheAfterSet(<<>>, ResultKey(impl, first),
                                            result, 0),
                              ResultKey(impl, second), 0))
    ELSE ResultKey(impl, second) \in {ResultKey(impl, first)}

\* two searches one after the other on a fresh engine with an empty cache,
\* within the TTL: the first misses, computes result and stores it; the
\* second looks its own key up and, on a hit, returns what it finds before
\* any backend call (out is left empty when the second search misses)
SearchPair(impl, first, second, result) ==
    /\ NoCallYet
    /\ LET served == ServedFromCache(impl, first, second, result)
       IN  ep' = [NoEp EXCEPT
                    !.fn = impl,
                    !.arg = [first |-> first, second |-> second],
                    !.ret = [served |-> served,
                             calls |-> IF served THEN 0 ELSE 1],
                    !.out = IF served THEN result ELSE <<>>]
    /\ UNCHANGED <<extVars, cacheVars, prodVars>>

\* ------------------------------------------------- LRUCache on its own
\* the keys stored and looked up: one more than the cache can hold
CacheKeys == {HydeKey(Str(i)) : i \in 1..(MaxCacheSize + 1)}
\* two values a key can be stored with
CacheValues == {<<[ch |-> "u"]>>, <<[ch |-> "v"]>>}

\* what lru_cache.pkl can hold when an LRUCache is constructed at time 0: the
\* dict some earlier LRUCache pickled, whatever its max_size was; entries
\* written CACHE_TTL ago or at time 0
FileContents ==
    {f \in SeqsUpTo([key : CacheKeys, value : CacheValues,
                     ts : {0 - CACHE_TTL, 0}], MaxCacheSize + 1) :
        \A i, j \in 1..Len(f) : i # j => f[i].key # f[j].key}

\* LRUCache._load_cache: the entries of the file that are not expired
LoadCache(data, t) == SelectSeq(data, LAMBDA e : Fresh(e, t))

\* LRUCache.__init__ of an instance that finds a cache file
InitCache ==
    /\ now = 0
    /\ file \in FileContents
    /\ cache = LoadCache(file, 0)
    /\ pc = "idle"
    /\ query = <<>>
    /\ k = 1
    /\ use_ce = FALSE
    /\ cached = Miss
    /\ st = [s \in Strategies |-> "idle"]
    /\ res = [s \in Strategies |-> <<>>]
    /\ timedOut = FALSE
    /\ all_results = <<>>
    /\ weights = ZeroWeights
    /\ out = <<>>
    /\ raised = FALSE
    /\ calls = 0
    /\ nCalls = 0
    /\ ep = NoEp
    /\ NoThreads
    /\ NoIndex
    /\ NoPool

\* LRUCache.get(key); ep keeps the call, the cache before it and what it
\* returned
CacheGet(key) ==
    /\ cache' = CacheAfterGet(cache, key, now)
    /\ ep' = [NoEp EXCEPT !.fn = "lru_get",
                          !.arg = [key |-> key, before |-> cache, t |-> now],
                          !.ret = CacheGetValue(cache, key, now)]
    /\ UNCHANGED <<extVars, now, file, prodVars>>

\* LRUCache.set(key, value), _save_cache included
CacheSet(key, value) ==
    /\ cache' = CacheAfterSet(cache, key, value, now)
    /\ file' = cache'
    /\ ep' = [NoEp EXCEPT !.fn = "lru_set",
                          !.arg = [key |-> key, value |-> value,
                                   before |-> cache, t |-> now]]
    /\ UNCHANGED <<extVars, now, prodVars>>

\* ---------------------------------------------------------------- LLMCache
\* self.cache is a dict key -> {response, timestamp}: a sequence of entries
\* with distinct keys
LlmPrompts == {<<"p">>, <<"q">>}

\* LLMCache._get_key
LlmKey(prompt) == Md5(prompt)

\* the dicts an LLMCache can hold at time t: loaded from llm_cache.json or
\* written by LLMCache.set, every entry stamped at or before t
LlmCaches(t) ==
    {c \in SeqsUpTo([key : {LlmKey(p) : p \in LlmPrompts},
                     response : CacheValues, ts : 0..t], Cardinality(LlmPrompts)) :
        \A i, j \in 1..Len(c) : i # j => c[i].key # c[j].key}

\* LLMCache.get: the response returned; hit = FALSE stands for None
LlmGetValue(c, prompt, t) ==
    LET i == CacheIndex(c, LlmKey(prompt))
    IN  IF i = 0 THEN Miss
        ELSE IF t - c[i].ts < CACHE_TTL
             THEN [hit |-> TRUE, value |-> c[i].response]
             ELSE Miss

\* LLMCache.get: the dict it leaves; get has no statement that changes it
LlmCacheAfterGet(c, prompt, t) == c

\* LLMCache.get(prompt) on an LLMCache holding c
LlmGet(c, prompt) ==
    /\ ep' = [NoEp EXCEPT !.fn = "llm_get",
                          !.arg = [key |-> LlmKey(prompt), before |-> c,
                                   t |-> now],
                          !.ret = [got |-> LlmGetValue(c, prompt, now),
                                   after |-> LlmCacheAfterGet(c, prompt, now)]]
    /\ UNCHANGED <<extVars, cacheVars, prodVars>>

\* ------------------------------------------------------- query expansion
\* queries by what expand_query finds in them: a question pattern ("what
\* is", ...), a decomposition key ("database", ...), or neither
ExpandQueries == {[pattern |-> FALSE, key |-> FALSE],
                  [pattern |-> TRUE, key |-> FALSE],
                  [pattern |-> FALSE, key |-> TRUE]}

\* expansions before the set: the query, templates[:3] of the first matching
\* pattern, terms[:2] of a matching key
ExpansionList(q) ==
    <<"query">>
    \o (IF q.pattern THEN <<"template1", "template2", "template3">> ELSE <<>>)
    \o (IF q.key THEN <<"term1", "term2">> ELSE <<>>)

\* list(set(expansions)): the iteration order of a set of str follows the
\* string hashes, which are salted anew in every interpreter run; within
\* one run the same set is iterated in the same order
SetOrders(expansions) == Orders(Range(expansions))

\* expand_query in a run whose hash salt iterates the set in set_order
expand_query(set_order) == Take(set_order, 5)

\* the expansions ParallelMultiStage.retrieve searches: expansions[:2]
SearchedExpansions(expansions) == Take(expansions, 2)

\* expand_query(q) twice in one run and once in another run
ExpandRuns(q, order1, order2) ==
    /\ NoCallYet
    /\ ep' = [NoEp EXCEPT !.fn = "expand",
                          !.arg = q,
                          !.ret = [run1 |-> expand_query(order1),
                                   again |-> expand_query(order1),
                                   run2 |-> expand_query(order2)]]
    /\ UNCHANGED <<extVars, cacheVars, prodVars>>

\* ------------------------------------------------------------ rerank calls
\* the candidate lists handed to rerank
RerankDocs == RankedLists(DocIds, MaxLen, {"vec"})
RerankQueries == {<<"a">>, <<"b">>}

\* two calls of FastCrossEncoder.rerank on one instance whose cache starts
\* empty, at the same time; model: self.model is loaded.  first and second
\* are the arguments [query, documents, k] of the calls, r1 and r2 what the
\* calls did
RerankPair(first, second, model, r1, r2) ==
    /\ NoCallYet
    /\ ep' = [NoEp EXCEPT !.fn = "rerank",
                          !.arg = [first |-> first, second |-> second,
                                   model |-> model],
                          !.ret = [first |-> [out |-> r1.out, mode |-> r1.mode],
                                   second |-> [out |-> r2.out, mode |-> r2.mode]]]
    /\ UNCHANGED <<extVars, cacheVars, prodVars>>

\* one call of DynamicHybridSearch.rerank_with_cross_encoder
DynRerankCall(documents, top_k, model, r) ==
    /\ NoCallYet
    /\ ep' = [NoEp EXCEPT !.fn = "dyn_rerank",
                          !.arg = [documents |-> documents, k |-> top_k,
                                   model |-> model],
                          !.ret = r]
    /\ UNCHANGED <<extVars, cacheVars, prodVars>>

\* ------------------------------------------------------ the persisted file
\* entries a cache file can hold for a key: {value, timestamp} as the cache
\* writes it, or an entry that lacks one of the two ("response" is the value
\* field of LLMCache)
FileEntries(keys) ==
    [key : keys, value : {<<[ch |-> "v"]>>}, ts : {0 - CACHE_TTL, 0}]
    \cup [key : keys, value : {<<[ch |-> "v"]>>}]
    \cup [key : keys, ts : {0 - CACHE_TTL, 0}]

\* lru_cache.pkl or llm_cache.json when a cache is constructed: absent,
\* unreadable (open, pickle.load or json.load raises), or a map of entries
PersistedFiles(keys) ==
    {[kind |-> "absent"], [kind |-> "unreadable"]}
    \cup {[kind |-> "map", data |-> d] :
            d \in {f \in SeqsUpTo(FileEntries(keys), Cardinality(keys)) :
                      \A i, j \in 1..Len(f) : i # j => f[i].key # f[j].key}}

LoadKeys == {HydeKey(<<"a">>), HydeKey(<<"b">>)}
LlmLoadKeys == {LlmKey(p) : p \in LlmPrompts}

HasField(e, fld) == fld \in DOMAIN e

\* LRUCache._load_cache: every exception of the try block, the KeyError of
\* v['timestamp'] included, leaves an empty cache
LruLoad(f, t) ==
    IF f.kind # "map" THEN <<>>
    ELSE IF \E i \in 1..Len(f.data) : ~HasField(f.data[i], "ts") THEN <<>>
    ELSE SelectSeq(f.data, LAMBDA e : Fresh(e, t))

\* LLMCache._load_cache: json.load(f) as it is, {} when absent or unreadable
LlmLoad(f) == IF f.kind # "map" THEN <<>> ELSE f.data

\* LRUCache.get(key) on loaded contents: raised (KeyError of entry['value']),
\* or the hit it reports
LruGetLoaded(c, key, t) ==
    LET i == CacheIndex(c, key)
    IN  IF i = 0 THEN [raised |-> FALSE, hit |-> FALSE]
        ELSE IF ~Fresh(c[i], t) THEN [raised |-> FALSE, hit |-> FALSE]
        ELSE IF ~HasField(c[i], "value") THEN [raised |-> TRUE, hit |-> FALSE]
        ELSE [raised |-> FALSE, hit |-> TRUE]

\* LLMCache.get(prompt) on loaded contents: raised (KeyError of
\* entry['timestamp'] or entry['response']), or the hit it reports
LlmGetLoaded(c, key, t) ==
    LET i == CacheIndex(c, key)
    IN  IF i = 0 THEN [raised |-> FALSE, hit |-> FALSE]
        ELSE IF ~HasField(c[i], "ts") THEN [raised |-> TRUE, hit |-> FALSE]
        ELSE IF t - c[i].ts >= CACHE_TTL THEN [raised |-> FALSE, hit |-> FALSE]
        ELSE IF ~HasField(c[i], "value") THEN [raised |-> TRUE, hit |-> FALSE]
        ELSE [raised |-> FALSE, hit |-> TRUE]

\* LRUCache() or LLMCache() constructed over file f, then get(key)
LoadThenGet(impl, f, key) ==
    /\ NoCallYet
    /\ ep' = [NoEp EXCEPT
                !.fn = impl,
                !.arg = [file |-> f, key |-> key],
                !.ret = IF impl = "lru_load"
                        THEN LruGetLoaded(LruLoad(f, now), key, now)
                        ELSE LlmGetLoaded(LlmLoad(f), key, now)]
    /\ UNCHANGED <<extVars, cacheVars, prodVars>>

\* ------------------------------------------------------ KeywordSearchIndex
\* an index with rank_bm25 installed (self.enabled); the documents table is
\* the sequence of its rows in rowid order
IndexDocs == {"d1", "d2"}
\* text arguments of add_document; "" is rejected by add_document
Texts == {"", "t1", "t2"}

Row(d, text) == [id |-> d, content |-> text]

\* the tables a database file can hold: id is the primary key, content is
\* not empty
Tables ==
    {t \in SeqsUpTo([id : IndexDocs, content : Texts \ {""}],
                    Cardinality(IndexDocs)) :
        \A i, j \in 1..Len(t) : i # j => t[i].id # t[j].id}

RowIds(t) == [i \in 1..Len(t) |-> t[i].id]
RowContents(t) == [i \in 1..Len(t) |-> t[i].content]

\* INSERT OR REPLACE INTO documents: a row with the same id is deleted, the
\* new row is appended
InsertOrReplace(t, d, text) ==
    Append(SelectSeq(t, LAMBDA r : r.id # d), Row(d, text))

\* DELETE FROM documents WHERE id = ?
DeleteRow(t, d) == SelectSeq(t, LAMBDA r : r.id # d)

\* KeywordSearchIndex.__init__ on a database that may hold documents:
\* _rebuild_index reads every row
InitIndex ==
    /\ table \in Tables
    /\ doc_ids = RowIds(table)
    /\ doc_contents = RowContents(table)
    /\ now = 0
    /\ cache = <<>>
    /\ file = <<>>
    /\ pc = "idle"
    /\ query = <<>>
    /\ k = 1
    /\ use_ce = FALSE
    /\ cached = Miss
    /\ st = [s \in Strategies |-> "idle"]
    /\ res = [s \in Strategies |-> <<>>]
    /\ timedOut = FALSE
    /\ all_results = <<>>
    /\ weights = ZeroWeights
    /\ out = <<>>
    /\ raised = FALSE
    /\ calls = 0
    /\ nCalls = 0
    /\ ep = NoEp
    /\ NoThreads
    /\ NoPool

notIndex == <<cacheVars, prodVars, lockVars, poolVars>>

\* add_document(doc_id, text): nothing for an empty text; the row is written;
\* the in-memory lists grow only when doc_id is not in doc_ids
add_document(d, text) ==
    /\ IF text = ""
       THEN UNCHANGED indexVars
       ELSE /\ table' = InsertOrReplace(table, d, text)
            /\ IF d \notin Range(doc_ids)
               THEN /\ doc_ids' = Append(doc_ids, d)
                    /\ doc_contents' = Append(doc_contents, text)
               ELSE UNCHANGED <<doc_ids, doc_contents>>
    /\ ep' = [NoEp EXCEPT !.fn = "add_document",
                          !.arg = [id |-> d, text |-> text]]
    /\ UNCHANGED notIndex

\* remove_document(doc_id): the row is deleted, _rebuild_index reads the rest
remove_document(d) ==
    /\ table' = DeleteRow(table, d)
    /\ doc_ids' = RowIds(table')
    /\ doc_contents' = RowContents(table')
    /\ ep' = [NoEp EXCEPT !.fn = "remove_document", !.arg = [id |-> d]]
    /\ UNCHANGED notIndex

\* clear_all()
clear_all ==
    /\ table' = <<>>
    /\ doc_ids' = <<>>
    /\ doc_contents' = <<>>
    /\ ep' = [NoEp EXCEPT !.fn = "clear_all"]
    /\ UNCHANGED notIndex

\* the positions search can rank: distinct positions of the index
TopIndices(n) == {l \in SeqsUpTo(1..n, n) : NoDup(l)}

\* search(query, k): top_indices are the positions with a positive score,
\* best first; each hit is (doc_ids[idx], score, doc_contents[idx])
IndexSearch(top_indices) ==
    /\ ep' = [NoEp EXCEPT
                !.fn = "kw_search",
                !.arg = [table |-> table],
                !.out = [i \in 1..Len(top_indices) |->
                           Row(doc_ids[top_indices[i]],
                               doc_contents[top_indices[i]])]]
    /\ UNCHANGED <<indexVars, notIndex>>

\* ---------------------------------------------------------- ConnectionPool
\* pool is the number of ConnectionInfo objects in the queue; a caller is at
\* one of the places of get_connection between two steps that other threads
\* can interleave with: a block under self.lock, or one Queue operation
\* ConnectionPool.__init__: _initialize_pool makes min_size connections, any
\* of which the factory can fail to make
InitPool ==
    /\ pool \in 0..min_size
    /\ current_size = pool
    /\ active_connections = 0
    /\ conn = [c \in Callers |-> "idle"]
    /\ clr = "idle"
    /\ now = 0
    /\ cache = <<>>
    /\ file = <<>>
    /\ pc = "idle"
    /\ query = <<>>
    /\ k = 1
    /\ use_ce = FALSE
    /\ cached = Miss
    /\ st = [s \in Strategies |-> "idle"]
    /\ res = [s \in Strategies |-> <<>>]
    /\ timedOut = FALSE
    /\ all_results = <<>>
    /\ weights = ZeroWeights
    /\ out = <<>>
    /\ raised = FALSE
    /\ calls = 0
    /\ nCalls = 0
    /\ ep = NoEp
    /\ NoThreads
    /\ NoIndex

notPool == <<cacheVars, prodVars, ep, lockVars, indexVars>>

Move(c, where) == conn' = [conn EXCEPT ![c] = where]

\* a thread enters `with pool.get_connection():`
Enter(c) ==
    /\ conn[c] = "idle"
    /\ Move(c, "get")
    /\ UNCHANGED <<pool, active_connections, current_size, clr, notPool>>

\* conn_info = self.pool.get(timeout=0.1), or Empty
PoolGet(c) ==
    /\ conn[c] = "get"
    /\ IF pool > 0
       THEN pool' = pool - 1 /\ Move(c, "validate")
       ELSE pool' = pool /\ Move(c, "empty")
    /\ UNCHANGED <<active_connections, current_size, clr, notPool>>

\* _is_connection_valid(conn_info) and the block under the lock of its branch
Validate(c, valid) ==
    /\ conn[c] = "validate"
    /\ IF valid
       THEN /\ active_connections' = active_connections + 1
            /\ Move(c, "held")
       ELSE /\ active_connections' = active_connections
            /\ Move(c, "close_expired")
    /\ UNCHANGED <<pool, current_size, clr, notPool>>

\* _close_connection(conn_info) of an expired connection; conn_info = None
CloseExpired(c) ==
    /\ conn[c] = "close_expired"
    /\ current_size' = current_size - 1
    /\ Move(c, "timeout")
    /\ UNCHANGED <<pool, active_connections, clr, notPool>>

\* if time.time() - start_time > timeout: raise TimeoutError
CheckTimeout(c, late) ==
    /\ conn[c] = "timeout"
    /\ Move(c, IF late THEN "done" ELSE "get")
    /\ UNCHANGED <<pool, active_connections, current_size, clr, notPool>>

\* except Empty: the block under the lock
EmptyCount(c) ==
    /\ conn[c] = "empty"
    /\ active_connections' =
          IF current_size + active_connections < max_size
          THEN active_connections + 1
          ELSE active_connections
    /\ Move(c, "create")
    /\ UNCHANGED <<pool, current_size, clr, notPool>>

\* _create_connection: the block under the lock
CreateCount(c) ==
    /\ conn[c] = "create"
    /\ current_size' = current_size + 1
    /\ Move(c, "factory")
    /\ UNCHANGED <<pool, active_connections, clr, notPool>>

\* conn = self.factory(): it returns, or it raises and _create_connection
\* takes its count back
Factory(c, ok) ==
    /\ conn[c] = "factory"
    /\ IF ok
       THEN current_size' = current_size /\ Move(c, "held")
       ELSE current_size' = current_size - 1 /\ Move(c, "failed")
    /\ UNCHANGED <<pool, active_connections, clr, notPool>>

\* except Exception in get_connection: the count is taken back, RuntimeError
\* is raised, and finally finds conn_info None
CreateFailed(c) ==
    /\ conn[c] = "failed"
    /\ active_connections' = active_connections - 1
    /\ Move(c, "done")
    /\ UNCHANGED <<pool, current_size, clr, notPool>>

\* the with block ends; finally: the block under the lock
Release(c) ==
    /\ conn[c] = "held"
    /\ active_connections' = active_connections - 1
    /\ Move(c, "put")
    /\ UNCHANGED <<pool, current_size, clr, notPool>>

\* self.pool.put(conn_info, block=False); on Full the connection is closed
PoolPut(c) ==
    /\ conn[c] = "put"
    /\ IF pool < max_size
       THEN pool' = pool + 1 /\ current_size' = current_size
       ELSE pool' = pool /\ current_size' = current_size - 1
    /\ Move(c, "done")
    /\ UNCHANGED <<active_connections, clr, notPool>>

\* clear(): the loop takes and closes one queued connection, or ends
ClearLoop ==
    /\ clr \in {"idle", "loop"}
    /\ IF pool > 0
       THEN /\ pool' = pool - 1
            /\ current_size' = current_size - 1
            /\ clr' = "loop"
       ELSE /\ UNCHANGED <<pool, current_size>>
            /\ clr' = "reset"
    /\ UNCHANGED <<active_connections, conn, notPool>>

\* clear(): self.active_connections = 0 under the lock
ClearReset ==
    /\ clr = "reset"
    /\ active_connections' = 0
    /\ clr' = "init"
    /\ UNCHANGED <<pool, current_size, conn, notPool>>

\* clear(): _initialize_pool, the count of _create_connection
ClearCreate ==
    /\ clr = "init"
    /\ current_size' = current_size + 1
    /\ clr' = "factory"
    /\ UNCHANGED <<pool, active_connections, conn, notPool>>

\* clear(): _initialize_pool, the factory and put(block=False); a failure of
\* the factory or a full queue is logged
ClearFactory(ok) ==
    /\ clr = "factory"
    /\ IF ok
       THEN /\ pool' = IF pool < max_size THEN pool + 1 ELSE pool
            /\ current_size' = current_size
       ELSE /\ pool' = pool
            /\ current_size' = current_size - 1
    /\ clr' = "done"
    /\ UNCHANGED <<active_connections, conn, notPool>>

\* the connections a caller holds in conn_info
Holding == {c \in Callers : conn[c] \in {"validate", "close_expired", "held", "put"}}
\* the callers whose with block is open
Open == {c \in Callers : conn[c] = "held"}

\* ------------------------------------------- threads sharing one LRUCache
\* three concurrent callers of one ProductionAdvancedSearch: a search at its
\* self.cache.get(cache_key), a search (of search_batch, say) at its
\* self.cache.set(cache_key, final_results), and clear_cache
Threads == {"getter", "setter", "clearer"}

\* the value the setter stores
SetValue == <<[ch |-> "u"]>>

\* a cache of at most max_size entries, all written at time 0
BoundedCaches ==
    {c \in SeqsUpTo([key : CacheKeys, value : {<<[ch |-> "v"]>>}, ts : {0}],
                    MaxCacheSize) :
        \A i, j \in 1..Len(c) : i # j => c[i].key # c[j].key}

Thread(key) == [pc |-> "start", key |-> key, snap |-> <<>>, raised |-> FALSE]

\* the cache and its file agree, no thread has started
InitLock ==
    /\ now = 0
    /\ cache \in BoundedCaches
    /\ file = cache
    /\ start = cache
    /\ lock = "none"
    /\ thr \in [Threads -> {Thread(key) : key \in CacheKeys}]
    \* clear_cache takes no key
    /\ thr["clearer"].key = thr["setter"].key
    /\ pc = "idle"
    /\ query = <<>>
    /\ k = 1
    /\ use_ce = FALSE
    /\ cached = Miss
    /\ st = [s \in Strategies |-> "idle"]
    /\ res = [s \in Strategies |-> <<>>]
    /\ timedOut = FALSE
    /\ all_results = <<>>
    /\ weights = ZeroWeights
    /\ out = <<>>
    /\ raised = FALSE
    /\ calls = 0
    /\ nCalls = 0
    /\ ep = NoEp
    /\ NoIndex
    /\ NoPool

At(th, where) == thr[th].pc = where
Goto(th, where) == thr' = [thr EXCEPT ![th].pc = where]
\* leaving "with self.lock" releases the lock, on return and on an exception
Unlocked(th) == IF lock = th THEN "none" ELSE lock
Raise(th) ==
    /\ thr' = [thr EXCEPT ![th].pc = "done", ![th].raised = TRUE]
    /\ lock' = Unlocked(th)

sharedRest == <<now, prodVars, ep, start, indexVars, poolVars>>

\* "with self.lock:" of LRUCache.get and LRUCache.set
Acquire(th) ==
    /\ th \in {"getter", "setter"}
    /\ At(th, "start")
    /\ lock = "none"
    /\ lock' = th
    /\ Goto(th, IF th = "getter" THEN "get_test" ELSE "set_check")
    /\ UNCHANGED <<cache, file, sharedRest>>

\* LRUCache.get: "if key in self.cache"; when absent, return None
GetTest ==
    /\ At("getter", "get_test")
    /\ IF CacheIndex(cache, thr["getter"].key) # 0
       THEN Goto("getter", "get_read") /\ UNCHANGED lock
       ELSE Goto("getter", "done") /\ lock' = "none"
    /\ UNCHANGED <<cache, file, sharedRest>>

\* LRUCache.get: entry = self.cache[key] (KeyError when the key is gone), the
\* TTL test and move_to_end or del, then return
GetRead ==
    /\ At("getter", "get_read")
    /\ IF CacheIndex(cache, thr["getter"].key) = 0
       THEN Raise("getter") /\ UNCHANGED cache
       ELSE /\ cache' = CacheAfterGet(cache, thr["getter"].key, now)
            /\ Goto("getter", "done")
            /\ lock' = "none"
    /\ UNCHANGED <<file, sharedRest>>

\* LRUCache.set: "if len(self.cache) >= self.max_size"
SetCheck ==
    /\ At("setter", "set_check")
    /\ Goto("setter", IF Len(cache) >= MaxCacheSize THEN "set_pop"
                      ELSE "set_assign")
    /\ UNCHANGED <<cache, file, lock, sharedRest>>

\* LRUCache.set: self.cache.popitem(last=False), KeyError on an empty dict
SetPop ==
    /\ At("setter", "set_pop")
    /\ IF cache = <<>>
       THEN Raise("setter") /\ UNCHANGED cache
       ELSE cache' = Tail(cache) /\ Goto("setter", "set_assign")
                                 /\ UNCHANGED lock
    /\ UNCHANGED <<file, sharedRest>>

\* LRUCache.set: self.cache[key] = {value, timestamp}; an existing key keeps
\* its place in the OrderedDict
SetAssign ==
    /\ At("setter", "set_assign")
    /\ LET key == thr["setter"].key
           i   == CacheIndex(cache, key)
           e   == [key |-> key, value |-> SetValue, ts |-> now]
       IN  cache' = IF i = 0 THEN Append(cache, e)
                    ELSE [cache EXCEPT ![i] = e]
    /\ Goto("setter", "set_move")
    /\ UNCHANGED <<file, lock, sharedRest>>

\* LRUCache.set: self.cache.move_to_end(key), KeyError when the key is gone
SetMove ==
    /\ At("setter", "set_move")
    /\ LET i == CacheIndex(cache, thr["setter"].key)
       IN  IF i = 0
           THEN Raise("setter") /\ UNCHANGED cache
           ELSE /\ cache' = Append(RemoveAt(cache, i), cache[i])
                /\ Goto("setter", "save_snap")
                /\ UNCHANGED lock
    /\ UNCHANGED <<file, sharedRest>>

\* clear_cache: self.cache.cache.clear(), without the lock
ClearCache ==
    /\ At("clearer", "start")
    /\ cache' = <<>>
    /\ Goto("clearer", "save_snap")
    /\ UNCHANGED <<file, lock, sharedRest>>

\* _save_cache: dict(self.cache), the copy that pickle.dump is given
SaveSnapshot(th) ==
    /\ th \in {"setter", "clearer"}
    /\ At(th, "save_snap")
    /\ thr' = [thr EXCEPT ![th].pc = "save_write", ![th].snap = cache]
    /\ UNCHANGED <<cache, file, lock, sharedRest>>

\* _save_cache: the copy reaches the file when f is closed; then set leaves
\* "with self.lock"
SaveWrite(th) ==
    /\ At(th, "save_write")
    /\ file' = thr[th].snap
    /\ Goto(th, "done")
    /\ lock' = Unlocked(th)
    /\ UNCHANGED <<cache, sharedRest>>

\* one search of a freshly constructed engine
Next ==
    \/ \E qq \in Queries, kk \in Ks : StartSearch(qq, kk)
    \/ \E s \in Strategies :
          \E results \in StrategyLists(s, query, k, DocIds, MaxLen, Payloads) :
             TaskReturns(s, results)
    \/ \E s \in Strategies : TaskRaises(s)
    \/ Deadline
    \/ \E ce, model \in BOOLEAN : FinishSearch(ce, model)
    \/ /\ NoCallYet
       /\ \E results_lists \in FusionInputs : RrfCall(results_lists)
    \/ /\ NoCallYet
       /\ \E result_lists \in FusionInputs, normalize \in BOOLEAN :
             DynRrfCall(result_lists, normalize)
    \/ /\ NoCallYet
       /\ \E qq \in DynQueries, kk \in Ks, ce, model, enabled, fails \in BOOLEAN :
             \E vector_results \in BackendLists(DocIds, MaxLen, "vec"),
                kws \in KeywordResults(qq, kk, DocIds, MaxLen) :
                DynamicSearch(qq, kk, ce, model, enabled, fails,
                              vector_results, kws)
    \/ /\ NoCallYet
       /\ \E qq \in Queries, kk \in Ks, order \in Orders(OptMethods) :
             \E oh \in OptOutcomes("hyde", qq, kk),
                om \in OptOutcomes("multi", qq, kk),
                oe \in OptOutcomes("enhanced", qq, kk),
                ob \in OptOutcomes("basic", qq, kk) :
                OptimizedSearch(qq, kk,
                                [hyde |-> oh, multi |-> om,
                                 enhanced |-> oe, basic |-> ob], order)
    \/ /\ NoCallYet
       /\ \E qq \in Queries, kk \in Ks :
             \E results \in RankedLists(DocIds, Min(kk, MaxLen), Payloads) :
                EnhancedSearch(qq, kk, results)
    \/ /\ NoCallYet
       /\ \E f \in Flags : DynWeightsCall(f)
    \/ /\ NoCallYet
       /\ \E f \in Flags, force_exact \in BOOLEAN : DwcWeightsCall(f, force_exact)
    \/ /\ NoCallYet
       /\ \E impl \in {"production", "enhanced_hybrid"} :
             \E first, second \in SearchArgs(impl) :
                \E result \in FirstResults(first.k) :
                   SearchPair(impl, first, second, result)
    \/ /\ NoCallYet
       /\ \/ \E f \in PersistedFiles(LoadKeys), key \in LoadKeys :
                LoadThenGet("lru_load", f, key)
          \/ \E f \in PersistedFiles(LlmLoadKeys), key \in LlmLoadKeys :
                LoadThenGet("llm_load", f, key)
    \/ /\ NoCallYet
       /\ \E d1, d2 \in RerankDocs, k1, k2 \in Ks, q2 \in RerankQueries,
             model \in BOOLEAN :
             \E r1 \in RerankOutcomes(<<>>, <<"a">>, d1, k1, 0, model) :
                \E r2 \in RerankOutcomes(r1.cache, q2, d2, k2, 0, model) :
                   RerankPair([query |-> <<"a">>, documents |-> d1, k |-> k1],
                              [query |-> q2, documents |-> d2, k |-> k2],
                              model, r1, r2)
    \/ /\ NoCallYet
       /\ \E documents \in RerankDocs, top_k \in Ks, model \in BOOLEAN :
             \E r \in DynRerankOutcomes(documents, top_k, model) :
                DynRerankCall(documents, top_k, model, r)
    \/ /\ NoCallYet
       /\ \E q \in ExpandQueries :
             \E order1, order2 \in SetOrders(ExpansionList(q)) :
                ExpandRuns(q, order1, order2)
    \/ /\ NoCallYet
       /\ \E qq \in Queries, kk \in Ks, alpha10 \in {0, 7, 10},
             use_rrf \in BOOLEAN :
             \E vector_results \in RankedLists(DocIds, Min(2 * kk, MaxLen),
                                               {"vec"}),
                keyword_results \in KeywordHits(DocIds, Min(2 * kk, MaxLen)) :
                HybridSearch(qq, kk, alpha10, use_rrf, vector_results,
                             keyword_results)

Spec == Init /\ [][Next]_vars

\* searches that follow one another on the same engine, while the clock runs
NextSeq ==
    \/ \E qq \in Queries, kk \in Ks : StartSearch(qq, kk)
    \/ \E s \in Strategies :
          \E results \in StrategyLists(s, query, k, SeqDocIds, SeqMaxLen,
                                          Payloads) :
             TaskReturns(s, results)
    \/ \E s \in Strategies : TaskRaises(s)
    \/ Deadline
    \/ \E ce, model \in BOOLEAN : FinishSearch(ce, model)
    \/ Return
    \/ Tick
    \/ /\ NoCallYet
       /\ \E qq \in DynQueries, kk \in Ks, ce, model, enabled, fails \in BOOLEAN :
             \E vector_results \in BackendLists(DocIds, MaxLen, "vec"),
                kws \in KeywordResults(qq, kk, DocIds, MaxLen) :
                DynamicSearch(qq, kk, ce, model, enabled, fails,
                              vector_results, kws)

SpecSeq == Init /\ [][NextSeq]_vars

\* gets and sets on one LRUCache loaded from its file while the clock runs,
\* or one get on an LLMCache
NextCache ==
    \/ \E key \in CacheKeys : CacheGet(key)
    \/ \E key \in CacheKeys, value \in CacheValues : CacheSet(key, value)
    \/ Tick
    \/ /\ ep = NoEp
       /\ \E c \in LlmCaches(now), prompt \in LlmPrompts : LlmGet(c, prompt)

SpecCache == InitCache /\ [][NextCache]_vars

\* a get, a set and clear_cache running concurrently on one LRUCache
NextLock ==
    \/ \E th \in Threads : Acquire(th)
    \/ GetTest
    \/ GetRead
    \/ SetCheck
    \/ SetPop
    \/ SetAssign
    \/ SetMove
    \/ ClearCache
    \/ \E th \in Threads : SaveSnapshot(th)
    \/ \E th \in Threads : SaveWrite(th)

SpecLock == InitLock /\ [][NextLock]_vars

\* any sequence of calls on one KeywordSearchIndex
NextIndex ==
    \/ \E d \in IndexDocs, text \in Texts : add_document(d, text)
    \/ \E d \in IndexDocs : remove_document(d)
    \/ clear_all
    \/ \E top_indices \in TopIndices(Len(doc_ids)) : IndexSearch(top_indices)

SpecIndex == InitIndex /\ [][NextIndex]_vars

\* threads using one ConnectionPool
NextPool ==
    \/ \E c \in Callers :
          \/ Enter(c)
          \/ PoolGet(c)
          \/ \E valid \in BOOLEAN : Validate(c, valid)
          \/ CloseExpired(c)
          \/ \E late \in BOOLEAN : CheckTimeout(c, late)
          \/ EmptyCount(c)
          \/ CreateCount(c)
          \/ \E ok \in BOOLEAN : Factory(c, ok)
          \/ CreateFailed(c)
          \/ Release(c)
          \/ PoolPut(c)
    \/ ClearLoop
    \/ ClearReset
    \/ ClearCreate
    \/ \E ok \in BOOLEAN : ClearFactory(ok)

SpecPool == InitPool /\ [][NextPool]_vars

\* ------------------------------------------------------------------ claims
OkStrategies == {s \in Strategies : st[s] = "ok"}

\* a search that went through the fan-out (cache miss) has returned
MissDone == pc = "done" /\ ~Truthy(cached)

\* C1: once the overall deadline (SEARCH_TIMEOUT) has expired, search can
\* return with the strategies collected so far: it is not kept waiting for a
\* strategy task that is still running.
C1_ReturnsAtDeadline ==
    (timedOut /\ pc # "done") => ENABLED (\E ce, model \in BOOLEAN : FinishSearch(ce, model))

\* C3: with reranking off and a cache miss, when exactly one strategy was
\* collected and the others failed or timed out, search returns, without
\* error, that strategy's candidates in its own rank order, truncated to k.
C3_SingleSurvivor ==
    \A s \in Strategies :
        (MissDone /\ ~use_ce /\ OkStrategies = {s})
            => (~raised /\ out = Take(res[s], k))

C3_Witness ==
    /\ MissDone /\ ~use_ce /\ ~raised
    /\ st = [s \in Strategies |->
                CASE s = "multi" -> "ok" [] s = "hyde" -> "failed" [] OTHER -> "late"]
    /\ Len(res["multi"]) = 2
    /\ k = 1


RECURSIVE ResultsInOrder(_, _)
ResultsInOrder(o, i) ==
    IF i = 0 THEN <<>>
    ELSE MergeResults(ResultsInOrder(o, i - 1), res[o[i]], 1, o[i])

RECURSIVE WeightsInOrder(_, _)
WeightsInOrder(o, i) ==
    IF i = 0 THEN ZeroWeights
    ELSE MergeWeights(WeightsInOrder(o, i - 1), res[o[i]], 1, o[i])

\* what search returns, reranking off, when the collected strategies
\* complete in order o
OutputInOrder(o) ==
    Unscore(Take(CandidatesWeighted(ResultsInOrder(o, Len(o)),
                                    WeightsInOrder(o, Len(o))), k))

\* C4: for a fixed set of completed strategies and their ranked lists, the
\* output of search (doc ids, their order, text and metadata) is the same
\* for every order in which the strategy tasks complete.
C4_OrderIndependent ==
    (MissDone /\ ~use_ce) => \A o \in Orders(OkStrategies) : out = OutputInOrder(o)

\* C5: the second of two identical calls search(q, k) within the TTL, with no
\* eviction or clear in between, returns the output of the first and issues
\* no backend call, whatever the first returned, an empty list included.
C5_CacheIdempotent ==
    (pc = "done" /\ cached.hit) => (out = cached.value /\ calls = 0)

\* the places (list, rank) where doc id d occurs in the lists
Occurrences(lists, d) ==
    {<<j, r>> \in (1..Len(lists)) \X (1..MaxLen) :
        r <= Len(lists[j]) /\ lists[j][r].id = d}

RECURSIVE SumTerms(_)
SumTerms(S) ==
    IF S = {} THEN 0
    ELSE LET x == CHOOSE y \in S : TRUE
         IN  RrfTerm(x[2]) + SumTerms(S \ {x})

\* C8: with normalisation off, both reciprocal_rank_fusion functions give
\* every doc id exactly the sum, over the lists that contain it, of
\* 1 / (K + r), r its 1-based rank in that list (K = 60); a doc id in no
\* list gets no entry.
C8_RrfSum ==
    (ep.fn \in {"rrf", "dynrrf"} /\ ~ep.norm) =>
        /\ ep.scores.den = RrfUnit
        /\ \A d \in DocIds :
              /\ ep.scores.val[d] = SumTerms(Occurrences(ep.lists, d))
              /\ (d \in Range(ep.scores.keys)) <=> (Occurrences(ep.lists, d) # {})

C8_Witness ==
    /\ ep.fn = "dynrrf" /\ ~ep.norm
    /\ Len(ep.lists) = 2
    /\ \E d \in DocIds :
          /\ <<1, 1>> \in Occurrences(ep.lists, d)
          /\ <<1, 2>> \in Occurrences(ep.lists, d)
          /\ <<2, 2>> \in Occurrences(ep.lists, d)
          /\ ep.scores.val[d] = RrfTerm(1) + 2 * RrfTerm(2)

\* C2: ProductionAdvancedSearch.search, DynamicHybridSearch.search and
\* OptimizedAdvancedSearch.search never raise to their caller, whichever
\* backend call fails or times out.
C2_NeverRaises ==
    /\ ~raised
    /\ ep.fn \in {"dynamic", "optimized"} => ~ep.raised

\* C6: an empty query is rejected with a validation error before any backend
\* call, by ProductionAdvancedSearch.search, DynamicHybridSearch.search and
\* enhanced_search.
C6_EmptyQueryRejected ==
    /\ (pc # "idle" /\ query = <<>>) => (calls = 0 /\ (pc = "done" => raised))
    /\ (ep.fn \in {"dynamic", "enhanced"} /\ ep.query = <<>>)
          => (ep.raised /\ ep.calls = 0)

\* C7: a list returned by DynamicHybridSearch.search or by
\* ProductionAdvancedSearch.search (cache miss or cache hit) holds every doc
\* id at most once.
C7_NoDuplicateIds ==
    /\ pc = "done" => NoDup(Ids(out))
    /\ ep.fn = "dynamic" => NoDup(Ids(ep.out))

C7_Witness ==
    /\ ep.fn = "dynamic" /\ ~ep.raised
    /\ Len(ep.lists) = 2
    /\ \E d \in DocIds :
          /\ Cardinality(Occurrences(ep.lists, d)) = 3
          /\ FoundIn(ep.out, d)
    /\ Len(ep.out) = 2

\* every returned doc id is in the list of a strategy collected by this call
OutFromCollected ==
    \A i \in 1..Len(out) : \E s \in OkStrategies : FoundIn(res[s], out[i].id)

\* every merged doc id has a strictly positive accumulated score
ScoresPositive == \A i \in 1..Len(all_results) : weights[all_results[i].id] > 0

\* C9 as stated: while search merges, each accumulated score is strictly
\* positive and never decreases, and a doc id in no completed strategy's
\* list for this call is never in the returned list.
C9_FusionScores ==
    [][/\ (pc' = "collect") => ScoresPositive'
       /\ (pc = "collect" /\ pc' = "collect")
             => \A d \in DocIds : weights'[d] >= weights[d]
       /\ (pc' = "done") => OutFromCollected']_vars

\* C9, amended: while search merges, each accumulated score is strictly
\* positive and never decreases, and on a cache miss a doc id in no completed
\* strategy's list for this call is never in the returned list (on a cache
\* hit the list stored by an earlier call is returned as it is).
C9_FusionScoresOnMiss ==
    [][/\ (pc' = "collect") => ScoresPositive'
       /\ (pc = "collect" /\ pc' = "collect")
             => \A d \in DocIds : weights'[d] >= weights[d]
       /\ (pc' = "done" /\ ~Truthy(cached')) => OutFromCollected']_vars

C9_Witness ==
    /\ MissDone
    /\ OkStrategies = {"hyde", "multi"}
    /\ st["enhanced"] = "failed"
    /\ \E d \in DocIds :
          /\ FoundIn(res["hyde"], d) /\ FoundIn(res["multi"], d)
          /\ weights[d] = RankWeight(1, 0, "hyde") + RankWeight(1, 0, "multi")
          /\ FoundIn(out, d)

\* the 1-based rank of doc id d in a list, 0 when it is not there
RankIn(results, d) ==
    IF FoundIn(results, d)
    THEN CHOOSE i \in 1..Len(results) :
            /\ results[i].id = d
            /\ \A j \in 1..(i - 1) : results[j].id # d
    ELSE 0

\* the best (lowest) rank of d in any of the lists
BestRank(lists, d) ==
    LET rs == {RankIn(lists[j], d) : j \in 1..Len(lists)} \ {0}
    IN  CHOOSE r \in rs : \A q \in rs : r <= q

\* out is in descending order of score, ties by ascending best rank
OrderedByScoreThenRank(o, score, lists) ==
    \A i, j \in 1..Len(o) :
        i < j => \/ score[o[i].id] > score[o[j].id]
                 \/ /\ score[o[i].id] = score[o[j].id]
                    /\ BestRank(lists, o[i].id) <= BestRank(lists, o[j].id)

\* C10: with the reranker off, DynamicHybridSearch.search and
\* ProductionAdvancedSearch.search return the fused candidates in descending
\* order of fused score, ties broken by the better (lowest) single-strategy
\* rank.
C10_DescendingTiesByRank ==
    /\ (MissDone /\ ~use_ce)
          => OrderedByScoreThenRank(out, weights,
                                    <<res["hyde"], res["multi"], res["enhanced"]>>)
    /\ (ep.fn = "dynamic" /\ ~ep.raised /\ ~ep.rerank)
          => OrderedByScoreThenRank(ep.out, ep.scores.val, ep.lists)

\* a call of DynamicHybridSearch.search that returned, the reranker off
DynReturned == ep.fn = "dynamic" /\ ~ep.raised /\ ~ep.rerank

\* the scores of the fused candidates of the call
CandidateScores == {ep.scores.val[d] : d \in Range(ep.scores.keys)}

\* C11: the scores DynamicHybridSearch.search returns (reranker off) are
\* min-max normalised: all lie in [0,1], the best candidate has score 1 and
\* the worst 0 whenever two candidates differ, and every returned score is
\* 0.5 when all candidates are equal.
C11_ReturnedScoresNormalised ==
    (DynReturned /\ ep.out # <<>>) =>
        /\ \A i \in 1..Len(ep.out) :
              /\ 0 <= ep.scores.val[ep.out[i].id]
              /\ ep.scores.val[ep.out[i].id] <= ep.scores.den
        /\ IF Cardinality(CandidateScores) > 1
           THEN /\ ep.scores.den \in CandidateScores
                /\ 0 \in CandidateScores
           ELSE \A i \in 1..Len(ep.out) :
                   2 * ep.scores.val[ep.out[i].id] = ep.scores.den

InKeywordFamily(d) ==
    \E j \in 1..Len(ep.arg.keyword) : FoundIn(ep.arg.keyword[j], d)

\* the factor, times 10, the claim gives to doc id d
FamilyFactor(d, w10) ==
    IF FoundIn(ep.arg.vector, d) /\ InKeywordFamily(d) THEN 10
    ELSE IF FoundIn(ep.arg.vector, d) THEN w10[1]
    ELSE w10[2]

\* C12: in DynamicHybridSearch.search a candidate found only by vector search
\* has its fused score multiplied by vectorWeight, one found only by keyword
\* search (in any keyword list) by keywordWeight, one found by both is left
\* unscaled, whether the keyword index is enabled or not and also when the
\* keyword search ran once per quoted phrase.
C12_FamilyWeighting ==
    (ep.fn = "dynamic" /\ ~ep.raised) =>
        /\ ep.ret.w10 = calculate_dynamic_weights(analyze_query(ep.query))
        /\ ep.scores.den = 10 * ep.ret.rrf.den
        /\ \A d \in Range(ep.scores.keys) :
              ep.scores.val[d] = ep.ret.rrf.val[d] * FamilyFactor(d, ep.ret.w10)

C12_Witness ==
    /\ ep.fn = "dynamic" /\ ~ep.raised
    /\ ep.query = TwoPhrases
    /\ Len(ep.arg.keyword) = 2
    /\ \E d1, d2, d3 \in DocIds :
          /\ FoundIn(ep.arg.vector, d1) /\ ~InKeywordFamily(d1)
          /\ FoundIn(ep.arg.vector, d2) /\ FoundIn(ep.arg.keyword[2], d2)
          /\ ~FoundIn(ep.arg.keyword[1], d2)
          /\ ~FoundIn(ep.arg.vector, d3) /\ FoundIn(ep.arg.keyword[2], d3)
          /\ ep.scores.val[d1] = 2 * ep.ret.rrf.val[d1]
          /\ ep.scores.val[d2] = 10 * ep.ret.rrf.val[d2]
          /\ ep.scores.val[d3] = 8 * ep.ret.rrf.val[d3]
          /\ ep.ret.rrf.val[d1] > 0 /\ ep.ret.rrf.val[d2] > 0

\* the 1-based position of doc id d in the returned list, 0 when absent
PosInOut(d) == RankIn(ep.out, d)

\* C13: for a query classified exact, DynamicHybridSearch.search with the
\* reranker off ranks a candidate found only by keyword search at rank r
\* strictly above a candidate found only by vector search at the same rank r.
C13_ExactKeywordAboveVector ==
    (DynReturned /\ analyze_query(ep.query) = "exact") =>
        \A dv, dk \in DocIds, j \in 1..Len(ep.arg.keyword) :
            ( /\ FoundIn(ep.arg.vector, dv) /\ ~InKeywordFamily(dv)
              /\ FoundIn(ep.arg.keyword[j], dk) /\ ~FoundIn(ep.arg.vector, dk)
              /\ RankIn(ep.arg.vector, dv) = RankIn(ep.arg.keyword[j], dk)
              /\ PosInOut(dv) > 0 )
            => (PosInOut(dk) > 0 /\ PosInOut(dk) < PosInOut(dv))

\* C14: for every combination of detected quotes, IDs, dates and numbers and
\* either value of force_exact, the pair (vectorWeight, keywordWeight) of
\* DynamicWeightCalculator.calculate_weights and of
\* DynamicHybridSearch.calculate_dynamic_weights has both components in
\* [0,1] and sums to 1.
C14_WeightsSumToOne ==
    (ep.fn \in {"dyn_weights", "dwc_weights"}) =>
        /\ ep.ret.w.den > 0
        /\ 0 <= ep.ret.w.v /\ ep.ret.w.v <= ep.ret.w.den
        /\ 0 <= ep.ret.w.kw /\ ep.ret.w.kw <= ep.ret.w.den
        /\ ep.ret.w.v + ep.ret.w.kw = ep.ret.w.den

C14_Witness ==
    /\ ep.fn = "dwc_weights"
    /\ ep.arg.quotes /\ ep.arg.ids /\ ep.arg.dates /\ ~ep.arg.force_exact
    /\ ep.ret.w = [v |-> 3 * 385, kw |-> 7 * 3600, den |-> 3 * 385 + 7 * 3600]

\* the type the classification rule gives, in priority order
PriorityType(f) ==
    IF f.quotes \/ f.ids THEN "exact"
    ELSE IF f.dates \/ f.numbers THEN "hybrid"
    ELSE "semantic"

\* the names DynamicWeightCalculator uses for the three types
DwcName(t) ==
    CASE t = "hybrid" -> "temporal" [] t = "semantic" -> "general" [] OTHER -> t

\* the query types DynamicWeightCalculator declares
DwcDeclaredTypes == {"general", "exact", "navigational", "temporal"}

\* C15: analyze_query classifies by priority: exact when quotes or IDs are
\* detected, otherwise hybrid when dates or numbers are detected, otherwise
\* semantic, for every combination of the four flags, in both
\* DynamicHybridSearch and DynamicWeightCalculator, and every declared query
\* type is produced by some combination.
C15_ClassifiedByPriority ==
    /\ ep.fn = "dyn_weights" =>
          /\ ep.ret.qtype = PriorityType(ep.arg)
          /\ \A t \in {"exact", "hybrid", "semantic"} :
                \E f \in Flags : DynQueryType(f) = t
    /\ ep.fn = "dwc_weights" =>
          /\ ep.ret.qtype = DwcName(PriorityType(ep.arg))
          /\ \A t \in DwcDeclaredTypes : \E f \in Flags : DwcQueryType(f) = t


PairDone == ep.fn \in {"production", "enhanced_hybrid"}

\* C16: a result stored in the result cache is returned only to a later call
\* with the same query text, the same k and the same options (reranker
\* option, override weights): whenever the second search of a pair is served
\* from the entry of the first, the two calls have the same arguments
C16_EntryOnlyForSameCall ==
    (PairDone /\ ep.ret.served) => ep.arg.first = ep.arg.second

\* the query text without its case, whitespace and punctuation
Lower(ch) == IF ch = "A" THEN "a" ELSE ch
Significant(ch) == ch \notin {" ", "?"}
NormalizedQuery(qq) ==
    LET kept == SelectSeq(qq, Significant)
    IN  [i \in 1..Len(kept) |-> Lower(kept[i])]

\* C17: when the two queries of a pair differ only in letter case,
\* whitespace or punctuation and everything else is the same, the second
\* search is served from the entry the first one stored, without a backend
\* call
C17_NormalisedQueriesShareEntry ==
    (/\ PairDone
     /\ NormalizedQuery(ep.arg.first.query) = NormalizedQuery(ep.arg.second.query)
     /\ [ep.arg.first EXCEPT !.query = <<>>] = [ep.arg.second EXCEPT !.query = <<>>])
    => (ep.ret.served /\ ep.ret.calls = 0)


CacheKeysOf(c) == {c[i].key : i \in 1..Len(c)}

\* C18: after any get or set on an LRUCache, whatever the file it was loaded
\* from held, the cache has at most max_size entries
C18_SizeBounded ==
    ep.fn \in {"lru_get", "lru_set"} => Len(cache) <= MaxCacheSize

\* the keys a set removed: present before it, absent after it
Evicted == CacheKeysOf(ep.arg.before) \ CacheKeysOf(cache)

\* C19: LRUCache.set evicts only when the key is not present and the cache is
\* full; what it evicts is the entry at the old end of the OrderedDict, the
\* one least recently read by a successful get or written; storing under a
\* key already present evicts nothing
C19_EvictsOnlyForNewKeyWhenFull ==
    ep.fn = "lru_set" =>
        /\ ep.arg.key \in CacheKeysOf(ep.arg.before) => Evicted = {}
        /\ Len(ep.arg.before) < MaxCacheSize => Evicted = {}
        /\ Evicted # {} => Evicted = {ep.arg.before[1].key}

\* the entry of the key looked up had reached the TTL when get was called
ExpiredLookup ==
    LET i == CacheIndex(ep.arg.before, ep.arg.key)
    IN  i # 0 /\ ep.arg.t - ep.arg.before[i].ts >= CACHE_TTL

\* C20: a get for an entry whose age has reached the TTL reports a miss and
\* leaves the cache without that entry, in LRUCache.get and in LLMCache.get
C20_ExpiredEntryMissedAndRemoved ==
    /\ (ep.fn = "lru_get" /\ ExpiredLookup) =>
          (~ep.ret.hit /\ ep.arg.key \notin CacheKeysOf(cache))
    /\ (ep.fn = "llm_get" /\ ExpiredLookup) =>
          (~ep.ret.got.hit /\ ep.arg.key \notin CacheKeysOf(ep.ret.after))


\* the cache and the file one call leaves when nothing runs beside it
AfterCall(th, s) ==
    CASE th = "getter" ->
           [cache |-> CacheAfterGet(s.cache, thr[th].key, now), file |-> s.file]
      [] th = "setter" ->
           LET c == CacheAfterSet(s.cache, thr[th].key, SetValue, now)
           IN  [cache |-> c, file |-> c]
      [] OTHER -> [cache |-> <<>>, file |-> <<>>]

\* what the three calls leave in each sequential order
SequentialOutcomes ==
    {AfterCall(o[3], AfterCall(o[2], AfterCall(o[1],
                                      [cache |-> start, file |-> start]))) :
        o \in Orders(Threads)}

AllDone == thr # <<>> /\ \A th \in Threads : thr[th].pc = "done"

\* C21: once concurrent get, set and clear_cache calls have all finished,
\* the in-memory cache and the cache file are what some sequential order of
\* the three calls leaves
C21_Serializable ==
    AllDone => [cache |-> cache, file |-> file] \in SequentialOutcomes


\* the file holds an entry for the key looked up that lacks a field
MalformedLookup ==
    /\ ep.arg.file.kind = "map"
    /\ \E i \in 1..Len(ep.arg.file.data) :
          /\ ep.arg.file.data[i].key = ep.arg.key
          /\ ~(HasField(ep.arg.file.data[i], "ts")
               /\ HasField(ep.arg.file.data[i], "value"))

\* C22: whatever the cache file is (absent, unreadable, with a malformed
\* entry), the get that follows the construction of an LRUCache or an
\* LLMCache does not raise, and a malformed entry is a miss
C22_FileNeverFatal ==
    ep.fn \in {"lru_load", "llm_load"} =>
        /\ ~ep.ret.raised
        /\ MalformedLookup => ~ep.ret.hit


\* a rerank call whose model is absent or failed returned the first k of its
\* documents, in their order
FellBack(a, r) ==
    r.mode \in {"absent", "failed"} => r.out = Take(a.documents, a.k)

\* C23: when the cross-encoder is absent, raises or times out, rerank
\* returns the first k input candidates in input order, in
\* FastCrossEncoder.rerank and in rerank_with_cross_encoder, and a search
\* that reranks still returns
C23_RerankFallsBack ==
    /\ ep.fn = "rerank" =>
          (FellBack(ep.arg.first, ep.ret.first)
           /\ FellBack(ep.arg.second, ep.ret.second))
    /\ ep.fn = "dyn_rerank" => FellBack(ep.arg, ep.ret)
    /\ (pc = "done" /\ use_ce) => ~raised

\* a call with a loaded model that failed, on more documents than k
C23_Witness ==
    /\ ep.fn = "rerank"
    /\ ep.arg.model
    /\ ep.ret.second.mode = "failed"
    /\ Len(ep.arg.second.documents) > ep.arg.second.k
    /\ ep.ret.second.out = <<ep.arg.second.documents[1]>>


\* a rerank call returned min(k, number of candidates) documents, each of
\* them one of its candidates
FullAndOwn(a, r) ==
    /\ Len(r.out) = Min(a.k, Len(a.documents))
    /\ Range(r.out) \subseteq Range(a.documents)

\* C27: with the model available, each of two successive rerank calls
\* returns min(k, number of candidates) documents, all of them candidates of
\* that call
C27_RerankCacheSameCandidates ==
    (ep.fn = "rerank" /\ ep.arg.model) =>
        (FullAndOwn(ep.arg.first, ep.ret.first)
         /\ FullAndOwn(ep.arg.second, ep.ret.second))


\* C24: expand_query returns the same sequence for the same query on every
\* call and in every run, so retrieve searches the same two expansions
C24_ExpansionDeterministic ==
    ep.fn = "expand" =>
        /\ ep.ret.again = ep.ret.run1
        /\ ep.ret.run2 = ep.ret.run1
        /\ SearchedExpansions(ep.ret.run2) = SearchedExpansions(ep.ret.run1)


HybridWeighted == ep.fn = "hybrid" /\ ~ep.arg.use_rrf

\* C26: in weighted mode hybrid_search returns only keyword hits at
\* alpha = 0.0 and only vector hits at alpha = 1.0
C26_PureAtExtremeAlpha ==
    /\ (HybridWeighted /\ ep.arg.alpha10 = 0) =>
          \A i \in 1..Len(ep.out) : FoundIn(ep.arg.keyword, ep.out[i].id)
    /\ (HybridWeighted /\ ep.arg.alpha10 = 10) =>
          \A i \in 1..Len(ep.out) : FoundIn(ep.arg.vector, ep.out[i].id)


\* C25: a search called with k returns at most k results: enhanced_search,
\* hybrid_search, DynamicHybridSearch.search, and
\* ProductionAdvancedSearch.search on a miss and when it is served from the
\* entry of an earlier search
C25_AtMostK ==
    /\ ep.fn \in {"enhanced", "hybrid", "dynamic"} => Len(ep.out) <= ep.k
    /\ pc = "done" => Len(out) <= k
    /\ (ep.fn = "production" /\ ep.ret.served) =>
          Len(ep.out) <= ep.arg.second.k


Pairs(ids, contents) == {<<ids[i], contents[i]>> : i \in 1..Len(ids)}

\* C28: the in-memory index holds exactly the ids and contents of the
\* documents table, each id once, and every hit of search carries the
\* content of the stored row
C28_IndexMatchesTable ==
    /\ Len(doc_ids) = Len(table)
    /\ Len(doc_contents) = Len(table)
    /\ Pairs(doc_ids, doc_contents) = Pairs(RowIds(table), RowContents(table))
    /\ ep.fn = "kw_search" =>
          \A i \in 1..Len(ep.out) : ep.out[i] \in Range(ep.arg.table)


\* C29: the connections in existence, queued or held by a caller of
\* get_connection, are never more than max_size
C29_AtMostMaxSize == pool + Cardinality(Holding) <= max_size

\* every thread is outside the pool's code: before its call, inside its with
\* block, or after it
Quiet ==
    /\ \A c \in Callers : conn[c] \in {"idle", "held", "done"}
    /\ clr \in {"idle", "done"}

\* C30: active_connections is never negative, it is 0 when no with block of
\* get_connection is open, and it is the number of open blocks whenever no
\* thread is inside get_connection or clear
C30_ActiveIsCheckedOut ==
    /\ active_connections >= 0
    /\ (Quiet /\ Open = {}) => active_connections = 0
    /\ Quiet => active_connections = Cardinality(Open)

====
